---- MODULE Spec2Model ----
(***************************************************************************)
(* Model of insight-pilot's result reconciliation pipeline:                *)
(*   process/merge.py  (load_items_from_file, ensure_fields, assign_ids,   *)
(*                      merge_results)                                     *)
(*   process/dedup.py  (normalisation, identity key, title similarity,     *)
(*                      merge_items, dedup)                                *)
(*   cli.py            (cmd_search, cmd_download, cmd_index) over          *)
(*                     ProjectContext                                      *)
(*   download/direct.py, convert.py, analyze.py, output/index.py           *)
(*                     (the stages' loops over the item list)              *)
(*                                                                         *)
(* Text values (titles, DOIs, arXiv ids) are sequences of one-character    *)
(* strings, so that lower-casing, stripping, prefix removal and the        *)
(* difflib similarity ratio are computed character by character.           *)
(* Optional string fields are "" when absent, null or empty: the code      *)
(* only ever tests their truthiness.                                       *)
(***************************************************************************)
EXTENDS Integers, Sequences, FiniteSets, TLC

VARIABLES
    pc,           \* position of the modelled run
    items,        \* dedup: the argument list `items`
    threshold,    \* dedup: similarity_threshold as a fraction <<num, den>>
    idx,          \* dedup: 1-based position of the for loop over items
    seen,         \* dedup: the ordered mapping key -> surviving item
    stats,        \* dedup: the stats dict (duplicates, merged)
    owner,        \* dedup (history): owner[i] = position in seen of the record input i went to
    pass,         \* dedup: 1 for the run on the input, 2 for the run on its own output
    firstOut,     \* dedup: (items, stats) returned by the first run
    out,          \* dedup: (items, stats) returned by the latest run
    input_files,  \* merge_results: the argument list of input files
    fileIdx,      \* merge_results: 1-based position of the loop over input_files
    loaded,       \* merge_results: the local list `items` (assign_ids: its argument)
    result,       \* merge_results / assign_ids: what the call returned or raised
    raw,          \* project: .insight/raw_<source>.json for each source
    persisted,    \* project: .insight/items.json
    clock,        \* project: the time utc_now_iso() returns
    artifacts,    \* project: the ids of the items the stages wrote a file for
    retry         \* download_with_retry: its argument, loop position, target file, return

dedupVars == <<items, threshold, idx, seen, stats, owner, pass, firstOut, out>>

mergeVars == <<input_files, fileIdx, loaded, result>>

projectVars == <<raw, persisted, clock, artifacts, retry>>

vars == <<pc, dedupVars, mergeVars, projectVars>>

----------------------------------------------------------------------------
(* Bounds of the model *)

MaxItems == 3

----------------------------------------------------------------------------
(* Characters and strings *)

Min(a, b) == IF a <= b THEN a ELSE b

Max(a, b) == IF a >= b THEN a ELSE b

\* the sequences over S of length at most n
ListsOf(S, n) == UNION {[1..m -> S] : m \in 0..n}

IsSpace(c) == c = " "

\* str.lower() on the letters the model uses
Lower(c) ==
    CASE c = "A" -> "a"
      [] c = "B" -> "b"
      [] c = "C" -> "c"
      [] c = "H" -> "h"
      [] c = "X" -> "x"
      [] c = "Y" -> "y"
      [] OTHER -> c

LowerSeq(s) == [i \in 1..Len(s) |-> Lower(s[i])]

RECURSIVE LStrip(_)
LStrip(s) == IF s # <<>> /\ IsSpace(Head(s)) THEN LStrip(Tail(s)) ELSE s

RECURSIVE RStrip(_)
RStrip(s) ==
    IF s # <<>> /\ IsSpace(s[Len(s)]) THEN RStrip(SubSeq(s, 1, Len(s) - 1)) ELSE s

\* str.strip()
Strip(s) == RStrip(LStrip(s))

\* " ".join(s.split()) for s without leading whitespace: every character that is
\* not whitespace is kept, and of every run of whitespace that a word follows the
\* first character, as one space
Collapse(s) ==
    LET words  == {i \in 1..Len(s) : ~IsSpace(s[i])}
        last   == IF words = {} THEN 0 ELSE CHOOSE i \in words : \A j \in words : j <= i
        tagged == [i \in 1..Len(s) |-> <<i, s[i]>>]
        Kept(p) == \/ ~IsSpace(p[2])
                   \/ p[1] > 1 /\ ~IsSpace(s[p[1] - 1]) /\ p[1] < last
        kept   == SelectSeq(tagged, Kept)
    IN  [n \in 1..Len(kept) |-> IF IsSpace(kept[n][2]) THEN " " ELSE kept[n][2]]

\* str.startswith(p)
StartsWith(s, p) == Len(s) >= Len(p) /\ SubSeq(s, 1, Len(p)) = p

\* str.replace(p, ""): every non-overlapping occurrence, left to right
RECURSIVE RemoveAll(_, _)
RemoveAll(s, p) ==
    IF s = <<>> THEN <<>>
    ELSE IF StartsWith(s, p) THEN RemoveAll(SubSeq(s, Len(p) + 1, Len(s)), p)
    ELSE <<Head(s)>> \o RemoveAll(Tail(s), p)

\* "https://doi.org/"
DoiPrefix ==
    <<"h", "t", "t", "p", "s", ":", "/", "/", "d", "o", "i", ".", "o", "r", "g", "/">>

----------------------------------------------------------------------------
(* dedup.py: normalisation and identity key *)

normalize_title(title) == Collapse(LStrip(LowerSeq(title)))

normalize_doi(doi) ==
    LET d == Strip(doi)
    IN  LowerSeq(IF StartsWith(d, DoiPrefix) THEN RemoveAll(d, DoiPrefix) ELSE d)

\* f"doi:{doi}" / f"arxiv:{arxiv_id}" / f"title:{...}": the three prefixes differ,
\* so a key is the pair of its prefix and the text after it.
get_dedup_key(item) ==
    LET doi   == normalize_doi(item.identifiers.doi)
        arxiv == Strip(item.identifiers.arxiv_id)
    IN  IF doi # <<>> THEN [kind |-> "doi", val |-> doi]
        ELSE IF arxiv # <<>> THEN [kind |-> "arxiv", val |-> arxiv]
        ELSE [kind |-> "title", val |-> normalize_title(item.title)]

----------------------------------------------------------------------------
(* difflib.SequenceMatcher(None, a, b).ratio(), no junk (autojunk only acts *)
(* on sequences of 200 elements or more)                                    *)

\* length of the common run starting at a[i], b[j] inside a[..ahi], b[..bhi]
RECURSIVE RunLen(_, _, _, _, _, _)
RunLen(a, b, i, j, ahi, bhi) ==
    IF i <= ahi /\ j <= bhi /\ a[i] = b[j]
    THEN 1 + RunLen(a, b, i + 1, j + 1, ahi, bhi)
    ELSE 0

\* find_longest_match on a[alo..ahi], b[blo..bhi] (1-based, inclusive): the longest
\* block, of those the one starting earliest in a, of those the earliest in b
find_longest_match(a, b, alo, ahi, blo, bhi) ==
    LET P    == (alo..ahi) \X (blo..bhi)
        len(p) == RunLen(a, b, p[1], p[2], ahi, bhi)
        k    == IF P = {} THEN 0
                ELSE CHOOSE n \in 0..Len(a) :
                        /\ \E p \in P : len(p) = n
                        /\ \A p \in P : len(p) <= n
        best == {p \in P : len(p) = k}
        i    == CHOOSE x \in alo..ahi :
                    /\ \E p \in best : p[1] = x
                    /\ \A p \in best : p[1] >= x
        j    == CHOOSE y \in blo..bhi :
                    /\ <<i, y>> \in best
                    /\ \A p \in best : p[1] = i => p[2] >= y
    IN  IF k = 0 THEN <<alo, blo, 0>> ELSE <<i, j, k>>

\* get_matching_blocks: total size of the blocks found left and right of the longest
RECURSIVE MatchSize(_, _, _, _, _, _)
MatchSize(a, b, alo, ahi, blo, bhi) ==
    IF alo > ahi \/ blo > bhi THEN 0
    ELSE LET m == find_longest_match(a, b, alo, ahi, blo, bhi)
             i == m[1]
             j == m[2]
             k == m[3]
         IN  IF k = 0 THEN 0
             ELSE k + MatchSize(a, b, alo, i - 1, blo, j - 1)
                    + MatchSize(a, b, i + k, ahi, j + k, bhi)

\* ratio() = 2.0 * matches / (len(a) + len(b)), 1.0 for two empty sequences:
\* returned as the fraction <<numerator, denominator>>
SequenceMatcherRatio(a, b) ==
    IF Len(a) + Len(b) = 0 THEN <<1, 1>>
    ELSE <<2 * MatchSize(a, b, 1, Len(a), 1, Len(b)), Len(a) + Len(b)>>

title_similarity(title_a, title_b) ==
    SequenceMatcherRatio(normalize_title(title_a), normalize_title(title_b))

\* a strict comparison in place of >=
RatioGE_Strict(r, t) == r[1] * t[2] > t[1] * r[2]

\* ratio >= similarity_threshold, both as fractions <<numerator, denominator>>
RatioGE(r, t) == r[1] * t[2] >= t[1] * r[2]

----------------------------------------------------------------------------
(* models.py / the raw JSON records: an item *)

\* citation_count when the key is absent or null
NoCount == -1

\* collected_at when the value is null or empty; a present timestamp is the instant
\* it parses to (a positive number)
NoTime == 0

\* collected_at when the key is absent (NoTime: present but null or empty)
AbsentTime == -1

\* download_status when the key is absent (a present value is the string itself)
AbsentStatus == "<absent>"

\* item["identifiers"]: state is "absent" (no key), "null" or "map"
NoIdentifiers(state) ==
    [state |-> state, doi |-> <<>>, arxiv_id |-> <<>>, openalex_id |-> ""]

\* item["urls"]: state is "absent" (no key), "null" or "map"
NoUrls(state) == [state |-> state, pdf |-> "", abstract |-> "", publisher |-> ""]

\* item["source"]: kind is "absent", "str" (names = <<the string>>) or "list"
NoSource == [kind |-> "absent", names |-> <<>>]

BlankItem ==
    [ id              |-> "",
      title           |-> <<>>,
      authors         |-> <<>>,
      date            |-> "",
      abstract        |-> "",
      summary         |-> "",
      access_note     |-> "",
      report_path     |-> "",
      identifiers     |-> NoIdentifiers("map"),
      urls            |-> NoUrls("map"),
      citation_count  |-> NoCount,
      source          |-> NoSource,
      download_status |-> "pending",
      local_path      |-> "",
      download_error  |-> "",
      collected_at    |-> NoTime,
      status          |-> "" ]

----------------------------------------------------------------------------
(* dedup.py: field merge policy *)

Contains(s, x) == \E i \in 1..Len(s) : s[i] = x

\* append to acc every truthy name of s not yet in acc, in order
RECURSIVE AppendUnique(_, _)
AppendUnique(acc, s) ==
    IF s = <<>> THEN acc
    ELSE IF Head(s) # "" /\ ~Contains(acc, Head(s))
         THEN AppendUnique(Append(acc, Head(s)), Tail(s))
         ELSE AppendUnique(acc, Tail(s))

\* the incoming names put before the primary ones
merge_unique_list_IncomingFirst(primary, incoming) == AppendUnique(<<>>, incoming \o primary)

merge_unique_list(primary, incoming) == AppendUnique(<<>>, primary \o incoming)

\* every status given the same priority
status_priority_Flat(status) == 0

status_priority(status) ==
    CASE status = "success" -> 3
      [] status = "pending" -> 2
      [] status = "failed" -> 1
      [] OTHER -> 0

\* values compared as they are written, not as the instants they parse to
min_timestamp_Unparsed(value_a, value_b) ==
    IF value_a <= NoTime THEN value_b
    ELSE IF value_b <= NoTime THEN value_a
    ELSE IF value_a <= value_b THEN value_a ELSE value_b

\* lines 57-63, parse: a timestamp value t > 0 stands for an ISO string with the
\* local hour t % 10 and the UTC offset t \div 10 hours ("Z", "+00:00" and no offset
\* all being offset 0); it parses to the instant local hour minus offset
ParseTime(value) == (value % 10) - (value \div 10)

min_timestamp(value_a, value_b) ==
    IF value_a <= NoTime THEN value_b
    ELSE IF value_b <= NoTime THEN value_a
    ELSE IF ParseTime(value_a) <= ParseTime(value_b) THEN value_a ELSE value_b

\* item.get("collected_at"): None when the key is absent
CollectedAt(item) == IF item.collected_at = AbsentTime THEN NoTime ELSE item.collected_at

\* the existing record's sources kept, the incoming names ignored
MergeSources_KeepOwn(existing, new) ==
    [ kind  |-> "list",
      names |-> IF existing.source.kind = "str" /\ existing.source.names[1] = ""
                THEN <<>> ELSE existing.source.names ]

\* lines 77-88: existing's list (a string becomes a one-element list, or the empty
\* list when it is empty), then new's names appended when truthy and not yet there
MergeSources(existing, new) ==
    LET sources == IF existing.source.kind = "str"
                   THEN IF existing.source.names[1] # "" THEN existing.source.names ELSE <<>>
                   ELSE existing.source.names
    IN  [kind |-> "list", names |-> AppendUnique(sources, new.source.names)]

\* the incoming value taken whenever it is not empty
Fill_Incoming(mine, theirs) == IF theirs # "" THEN theirs ELSE mine

\* lines 94-96
Fill(mine, theirs) == IF mine = "" /\ theirs # "" THEN theirs ELSE mine

FillSeq(mine, theirs) == IF mine = <<>> /\ theirs # <<>> THEN theirs ELSE mine

\* the count filled in only where the existing record has none
MergeCitation_Fill(existing, new) ==
    IF existing.citation_count = NoCount THEN new.citation_count
    ELSE existing.citation_count

\* lines 99-101
MergeCitation(existing, new) ==
    IF new.citation_count # NoCount
    THEN Max(IF existing.citation_count = NoCount THEN 0 ELSE existing.citation_count,
             new.citation_count)
    ELSE existing.citation_count

\* lines 104-109
MergeIdentifiers(existing, new) ==
    [ state       |-> "map",
      doi         |-> FillSeq(existing.identifiers.doi, new.identifiers.doi),
      arxiv_id    |-> FillSeq(existing.identifiers.arxiv_id, new.identifiers.arxiv_id),
      openalex_id |-> Fill(existing.identifiers.openalex_id, new.identifiers.openalex_id) ]

\* lines 112-117
MergeUrls(existing, new) ==
    [ state     |-> "map",
      pdf       |-> Fill(existing.urls.pdf, new.urls.pdf),
      abstract  |-> Fill(existing.urls.abstract, new.urls.abstract),
      publisher |-> Fill(existing.urls.publisher, new.urls.publisher) ]

\* lines 120-125: .get("download_status", "pending")
StatusOrPending(item) ==
    IF item.download_status = AbsentStatus THEN "pending" ELSE item.download_status

MergeStatus(existing, new) ==
    IF status_priority(StatusOrPending(new)) > status_priority(StatusOrPending(existing))
    THEN StatusOrPending(new)
    ELSE StatusOrPending(existing)

\* the incoming message taken whenever the existing record has none
MergeError_AnyStatus(existing, new, st) ==
    IF existing.download_error = "" THEN new.download_error ELSE existing.download_error

\* lines 132-133, st being merged["download_status"]
MergeError(existing, new, st) ==
    IF st = "failed" /\ existing.download_error = ""
    THEN new.download_error
    ELSE existing.download_error

merge_items(existing, new) ==
    LET st == MergeStatus(existing, new)
    IN  [ existing EXCEPT
            !.source          = MergeSources(existing, new),
            !.authors         = merge_unique_list(existing.authors, new.authors),
            !.abstract        = Fill(existing.abstract, new.abstract),
            !.summary         = Fill(existing.summary, new.summary),
            !.date            = Fill(existing.date, new.date),
            !.access_note     = Fill(existing.access_note, new.access_note),
            !.report_path     = Fill(existing.report_path, new.report_path),
            !.citation_count  = MergeCitation(existing, new),
            !.identifiers     = MergeIdentifiers(existing, new),
            !.urls            = MergeUrls(existing, new),
            !.download_status = st,
            !.local_path      = Fill(existing.local_path, new.local_path),
            !.download_error  = MergeError(existing, new, st),
            !.collected_at    = min_timestamp(CollectedAt(existing), CollectedAt(new)) ]

----------------------------------------------------------------------------
(* dedup.py: dedup.  The loop state is the ordered mapping seen (a sequence  *)
(* of key/item entries in insertion order), the stats dict, and the history  *)
(* owner: for each input position so far, the entry of seen the item founded *)
(* or was merged into.                                                       *)

\* title[:80]
TitleCut == 80

\* the title as it is, however long
Truncate_None(title) == title

Truncate(title) == SubSeq(title, 1, Min(TitleCut, Len(title)))

\* `key in seen` is never true
KeyIndex_Never(sn, key) == 0

\* position of key in seen, 0 when `key in seen` is false
KeyIndex(sn, key) ==
    IF \E i \in 1..Len(sn) : sn[i].key = key
    THEN CHOOSE i \in 1..Len(sn) : sn[i].key = key
    ELSE 0

\* a global best-match search: the most similar of the entries that reach the
\* threshold, the first of them on a tie
FirstSimilar_Best(sn, item, t) ==
    LET sim(i) == title_similarity(item.title, sn[i].item.title)
        hit(i) == RatioGE(sim(i), t)
        best(i) == /\ hit(i)
                   /\ \A j \in 1..Len(sn) : hit(j) => RatioGE(sim(i), sim(j))
    IN  IF \E i \in 1..Len(sn) : hit(i)
        THEN CHOOSE i \in 1..Len(sn) : best(i) /\ \A j \in 1..(i - 1) : ~best(j)
        ELSE 0

\* lines 167-168: the first entry of seen, in insertion order, whose title is
\* similar enough to item's; 0 when the loop ends without a break
FirstSimilar(sn, item, t) ==
    LET hit(i) == RatioGE(title_similarity(item.title, sn[i].item.title), t)
    IN  IF \E i \in 1..Len(sn) : hit(i)
        THEN CHOOSE i \in 1..Len(sn) : hit(i) /\ \A j \in 1..(i - 1) : ~hit(j)
        ELSE 0

InitialLoop(its) ==
    [ seen  |-> <<>>,
      stats |-> [original |-> Len(its), duplicates |-> 0, merged |-> <<>>],
      owner |-> <<>> ]

\* the item stored as a record of its own instead of being merged
MergeInto_Apart(st, item, k) ==
    [ seen  |-> Append(st.seen, [key |-> get_dedup_key(item), item |-> item]),
      stats |-> st.stats,
      owner |-> Append(st.owner, Len(st.seen) + 1) ]

\* lines 158-164 (k = position of the item's key) and 169-176 (k = first similar)
MergeInto(st, item, k) ==
    [ seen  |-> [st.seen EXCEPT ![k].item = merge_items(st.seen[k].item, item)],
      stats |-> [st.stats EXCEPT
                    !.duplicates = @ + 1,
                    !.merged = Append(@, [title |-> Truncate(item.title),
                                          merged_with |-> Truncate(st.seen[k].item.title)])],
      owner |-> Append(st.owner, k) ]

\* line 179
NewRecord(st, item) ==
    [ seen  |-> Append(st.seen, [key |-> get_dedup_key(item), item |-> item]),
      stats |-> st.stats,
      owner |-> Append(st.owner, Len(st.seen) + 1) ]

\* one iteration of the for loop, lines 155-179
DedupIteration(st, item, t) ==
    LET k == KeyIndex(st.seen, get_dedup_key(item))
        f == FirstSimilar(st.seen, item, t)
    IN  IF k # 0 THEN MergeInto(st, item, k)
        ELSE IF f # 0 THEN MergeInto(st, item, f)
        ELSE NewRecord(st, item)

\* lines 181-182
DedupResult(st) ==
    [ items |-> [i \in 1..Len(st.seen) |-> st.seen[i].item],
      stats |-> [ original   |-> st.stats.original,
                  duplicates |-> st.stats.duplicates,
                  merged     |-> st.stats.merged,
                  final      |-> Len(st.seen) ] ]

RECURSIVE DedupLoop(_, _, _, _)
DedupLoop(st, its, i, t) ==
    IF i > Len(its) THEN st ELSE DedupLoop(DedupIteration(st, its[i], t), its, i + 1, t)

\* dedup(items, similarity_threshold) as one call
dedup(its, t) == DedupResult(DedupLoop(InitialLoop(its), its, 1, t))

----------------------------------------------------------------------------
(* merge.py.  An input file is a record: exists (the path exists), shape    *)
(* ("list": a bare sequence, "items": an object with an items sequence,      *)
(* "results": an object with a results sequence, "other": any other JSON     *)
(* value), records, and the wrapper's source and timestamp.                  *)

\* not item.get("source"): no key, an empty string or an empty list
SourceFalsy(src) ==
    \/ src.kind = "absent"
    \/ src.kind = "str" /\ src.names[1] = ""
    \/ src.kind = "list" /\ src.names = <<>>

\* the wrapper's source and timestamp written over whatever the record carries
Propagate_Overwrite(item, source, timestamp) ==
    [ item EXCEPT
        !.source       = IF source # "" THEN [kind |-> "str", names |-> <<source>>] ELSE @,
        !.collected_at = IF timestamp > NoTime THEN timestamp ELSE @ ]

\* lines 28-32: the wrapper's source and timestamp fill what the record lacks
Propagate(item, source, timestamp) ==
    [ item EXCEPT
        !.source       = IF source # "" /\ SourceFalsy(item.source)
                         THEN [kind |-> "str", names |-> <<source>>]
                         ELSE @,
        !.collected_at = IF timestamp > NoTime /\ item.collected_at <= NoTime
                         THEN timestamp
                         ELSE @ ]

load_items_from_file(f) ==
    CASE f.shape = "list"    -> f.records
      [] f.shape = "items"   -> f.records
      [] f.shape = "results" ->
            [i \in 1..Len(f.records) |-> Propagate(f.records[i], f.source, f.timestamp)]
      [] OTHER               -> <<>>

\* dict.setdefault: only an absent key gets the default
ensure_fields(item, now) ==
    [ item EXCEPT
        !.identifiers     = IF @.state = "absent" THEN NoIdentifiers("map") ELSE @,
        !.urls            = IF @.state = "absent" THEN NoUrls("map") ELSE @,
        !.download_status = IF @ = AbsentStatus THEN "pending" ELSE @,
        !.collected_at    = IF @ = AbsentTime THEN now ELSE @ ]

\* f"i{counter:04d}"
FormatId(counter) ==
    IF counter < 10 THEN "i000" \o ToString(counter)
    ELSE IF counter < 100 THEN "i00" \o ToString(counter)
    ELSE IF counter < 1000 THEN "i0" \o ToString(counter)
    ELSE "i" \o ToString(counter)

\* the counter taken as it stands, whether or not its id is in use
SkipUsed_NoSkip(counter, used) == counter

\* line 53: while f"i{counter:04d}" in used: counter += 1
RECURSIVE SkipUsed(_, _)
SkipUsed(counter, used) ==
    IF FormatId(counter) \in used THEN SkipUsed(counter + 1, used) ELSE counter

\* lines 50-57, from position i on
RECURSIVE AssignLoop(_, _, _, _)
AssignLoop(its, i, used, counter) ==
    IF i > Len(its) THEN its
    ELSE IF its[i].id # "" THEN AssignLoop(its, i + 1, used, counter)
    ELSE LET c == SkipUsed(counter, used)
         IN  AssignLoop([its EXCEPT ![i].id = FormatId(c)], i + 1,
                        used \cup {FormatId(c)}, c + 1)

assign_ids(its) ==
    AssignLoop(its, 1, {its[i].id : i \in {j \in 1..Len(its) : its[j].id # ""}}, 1)

\* no existence check: a missing file reads as one without records
SourceMissing_Never(f) == FALSE

\* line 77: not path.exists()
SourceMissing(f) == ~f.exists

\* line 78: raise FileNotFoundError
Raised(error) == [ok |-> FALSE, error |-> error, items |-> <<>>]

\* lines 81-85
Returned(its, now) ==
    [ ok    |-> TRUE,
      error |-> "",
      items |-> assign_ids([i \in 1..Len(its) |-> ensure_fields(its[i], now)]) ]

RECURSIVE MergeLoop(_, _, _, _)
MergeLoop(files, i, its, now) ==
    IF i > Len(files) THEN Returned(its, now)
    ELSE IF SourceMissing(files[i]) THEN Raised("FileNotFoundError")
    ELSE MergeLoop(files, i + 1, its \o load_items_from_file(files[i]), now)

\* merge_results(input_files) as one call, at time now
merge_results(files, now) == MergeLoop(files, 1, <<>>, now)

----------------------------------------------------------------------------
(* The parts of the state a run does not use stay at these values *)

NoResult ==
    [ items |-> <<>>,
      stats |-> [original |-> 0, duplicates |-> 0, merged |-> <<>>, final |-> 0] ]

DedupIdle ==
    /\ items = <<>>
    /\ threshold = <<9, 10>>
    /\ idx = 0
    /\ seen = <<>>
    /\ stats = NoResult.stats
    /\ owner = <<>>
    /\ pass = 0
    /\ firstOut = NoResult
    /\ out = NoResult

MergeIdle ==
    /\ input_files = <<>>
    /\ fileIdx = 0
    /\ loaded = <<>>
    /\ result = [ok |-> TRUE, error |-> "", items |-> <<>>]

\* papers/, the markdown directory, .insight/analysis and reports/ without a file,
\* and an index.md that lists no item
NoArtifacts == [pdfs |-> {}, markdown |-> {}, analyses |-> {}, reports |-> {}, index |-> {}]

\* no call of download_with_retry under way
RetryIdle ==
    [ max_retries |-> 0, attempt |-> 0, tried |-> <<>>, file |-> "none", returned |-> "idle" ]

ProjectIdle ==
    /\ raw = <<>>
    /\ persisted = <<>>
    /\ clock = 0
    /\ artifacts = NoArtifacts
    /\ retry = RetryIdle

----------------------------------------------------------------------------
(* download/direct.py: download_pdfs over an item list.  fails is the set of *)
(* positions whose download_with_retry returns an error.                     *)

\* no skipping of excluded items
IsExcluded_Never(item) == FALSE

\* item.get("status") == "excluded" (direct.py:156, convert.py:374, analyze.py:366,
\* index.py:242)
IsExcluded(item) == item.status = "excluded"

\* build_filename: the id is the base name (an item without id, which merge never
\* leaves, is named "paper" here); "_1", "_2", ... until the name is unused
RECURSIVE FreeName(_, _, _)
FreeName(base, counter, used) ==
    LET candidate == IF counter = 0 THEN base \o ".pdf"
                     ELSE base \o "_" \o ToString(counter) \o ".pdf"
    IN  IF candidate \in used THEN FreeName(base, counter + 1, used) ELSE candidate

build_filename(item, used) == FreeName(IF item.id # "" THEN item.id ELSE "paper", 0, used)

\* make_local_path for the project's papers directory
make_local_path(filename) == "papers/" \o filename

\* lines 154-201, from position i on
RECURSIVE DownloadLoop(_, _, _, _)
DownloadLoop(its, i, used, fails) ==
    IF i > Len(its) THEN its
    ELSE LET item == its[i]
         IN  IF IsExcluded(item) THEN DownloadLoop(its, i + 1, used, fails)
             ELSE IF item.download_status = "success" /\ item.local_path # ""
                  THEN DownloadLoop(its, i + 1, used, fails)
             ELSE IF item.urls.pdf = ""
                  THEN DownloadLoop(
                          [its EXCEPT ![i].download_status = "unavailable",
                                      ![i].download_error = "No PDF URL"],
                          i + 1, used, fails)
             ELSE LET filename == build_filename(item, used)
                  IN  IF i \in fails
                      THEN DownloadLoop(
                              [its EXCEPT ![i].download_status = "failed",
                                          ![i].download_error = "error"],
                              i + 1, used \cup {filename}, fails)
                      ELSE DownloadLoop(
                              [its EXCEPT ![i].download_status = "success",
                                          ![i].download_error = "",
                                          ![i].local_path = make_local_path(filename)],
                              i + 1, used \cup {filename}, fails)

download_pdfs(its, fails) == DownloadLoop(its, 1, {}, fails)

\* lines 156-176: the positions download_with_retry is called for
DownloadAttempts(its) ==
    {i \in 1..Len(its) :
        /\ ~IsExcluded(its[i])
        /\ ~(its[i].download_status = "success" /\ its[i].local_path # "")
        /\ its[i].urls.pdf # ""}

\* the items a PDF is written for: the attempts that do not fail
PdfsWritten(its, fails) == {its[i].id : i \in DownloadAttempts(its) \ fails}

\* stats[name] += 1
Count(st, name) == [st EXCEPT ![name] = @ + 1]

\* an item downloaded earlier counted as skipped only
CountSkipped_Only(st) == Count(st, "skipped")

\* lines 166-167
CountSkipped(st) == Count(Count(st, "skipped"), "success")

\* lines 154-201, from position i on: the counters of the stats dict.  Each item
\* is read before the loop writes it, so the branch taken at position i is the
\* one DownloadLoop takes there.
RECURSIVE StatsLoop(_, _, _, _)
StatsLoop(its, i, fails, st) ==
    IF i > Len(its) THEN st
    ELSE LET item == its[i]
         IN  IF IsExcluded(item) THEN StatsLoop(its, i + 1, fails, Count(st, "excluded"))
             ELSE IF item.download_status = "success" /\ item.local_path # ""
                  THEN StatsLoop(its, i + 1, fails, CountSkipped(st))
             ELSE IF item.urls.pdf = ""
                  THEN StatsLoop(its, i + 1, fails, Count(st, "unavailable"))
             ELSE IF i \in fails
                  THEN StatsLoop(its, i + 1, fails, Count(st, "failed"))
                  ELSE StatsLoop(its, i + 1, fails, Count(st, "success"))

\* result["l1_stats"]: the stats dict of line 141 after the loop
l1_stats(its, fails) ==
    StatsLoop(its, 1, fails,
              [ total |-> Len(its), success |-> 0, failed |-> 0, unavailable |-> 0,
                skipped |-> 0, excluded |-> 0 ])

----------------------------------------------------------------------------
(* cli.py over ProjectContext: cmd_search and cmd_download on one project *)

\* cli.py:315: dedup(items, 0.9)
SearchThreshold == <<9, 10>>

\* the collectors searched in the model (cli.py:183 lists six)
Sources == {"openalex", "pubmed"}

\* what the upstream APIs know: two papers whose titles are not similar
Papers ==
    { [title |-> <<"a", "b">>, doi |-> <<"x">>, pdf |-> "http://pdf/ab"],
      [title |-> <<"b", "a">>, doi |-> <<>>, pdf |-> ""] }

\* the record a collector builds for a paper (openalex.py:63-79, pubmed.py:223-246)
CollectorRecord(source, paper, now) ==
    [ BlankItem EXCEPT
        !.title           = paper.title,
        !.identifiers     = [NoIdentifiers("map") EXCEPT !.doi = paper.doi],
        !.urls            = [NoUrls("map") EXCEPT !.pdf = paper.pdf],
        !.source          = [kind |-> "str", names |-> <<source>>],
        !.download_status = IF paper.pdf # "" THEN "pending" ELSE "unavailable",
        !.collected_at    = now ]

\* the result lists a search can return: the papers, each at most once, in any order
SearchResults ==
    {r \in ListsOf(Papers, Cardinality(Papers)) :
        \A i, j \in 1..Len(r) : i # j => r[i] # r[j]}

NoFile == [exists |-> FALSE, shape |-> "other", records |-> <<>>, source |-> "", timestamp |-> NoTime]

\* lines 279-287: the payload written to raw_<source>.json
RawPayload(source, results, now) ==
    [ exists    |-> TRUE,
      shape     |-> "results",
      records   |-> [i \in 1..Len(results) |-> CollectorRecord(source, results[i], now)],
      source    |-> source,
      timestamp |-> now ]

\* ctx.get_raw_files(): the raw files that exist, in the order glob yields them
RawFileOrders(rw) ==
    LET present == {s \in Sources : rw[s].exists}
    IN  { [i \in 1..Len(order) |-> rw[order[i]]] :
            order \in {o \in [1..Cardinality(present) -> present] :
                          \A i, j \in 1..Cardinality(present) : i # j => o[i] # o[j]} }

\* the number of commands run on the project is bounded by MaxCommands
MaxCommands == 3

ProjectInit ==
    /\ pc = "project"
    /\ DedupIdle
    /\ MergeIdle
    /\ raw = [s \in Sources |-> NoFile]
    /\ persisted = <<>>
    /\ clock = 1
    /\ artifacts = NoArtifacts
    /\ retry = RetryIdle

\* cmd_search for one source (lines 196-321): the search result is written to the
\* raw file, all raw files are merged, the merged list is deduplicated and saved
cmd_search(source, results, raw_files) ==
    LET merged == merge_results(raw_files, clock)
    IN  /\ raw' = [raw EXCEPT ![source] = RawPayload(source, results, clock)]
        /\ merged.ok
        /\ persisted' = dedup(merged.items, SearchThreshold).items
        /\ clock' = clock + 1
        /\ UNCHANGED <<artifacts, retry>>

CmdSearch ==
    /\ pc = "project"
    /\ clock <= MaxCommands
    /\ \E source \in Sources, results \in SearchResults :
         \E raw_files \in RawFileOrders([raw EXCEPT ![source] = RawPayload(source, results, clock)]) :
            cmd_search(source, results, raw_files)
    /\ UNCHANGED <<pc, dedupVars, mergeVars>>

\* cmd_download (lines 452-457): load items.json, download, save items.json
cmd_download(fails) ==
    /\ persisted' = download_pdfs(persisted, fails)
    /\ artifacts' = [artifacts EXCEPT !.pdfs = @ \cup PdfsWritten(persisted, fails)]
    /\ clock' = clock + 1
    /\ UNCHANGED <<raw, retry>>

CmdDownload ==
    /\ pc = "project"
    /\ clock <= MaxCommands
    /\ \E fails \in SUBSET DownloadAttempts(persisted) : cmd_download(fails)
    /\ UNCHANGED <<pc, dedupVars, mergeVars>>

----------------------------------------------------------------------------
(* The stages after search, each a loop over the item list: convert_papers  *)
(* (convert.py), analyze_papers (analyze.py) and cmd_index (cli.py,         *)
(* output/index.py).  None of them writes items.json.                       *)

\* convert.py:372-402 and convert_paper 228-247: the positions converted
ConvertAttempts(its, art) ==
    {i \in 1..Len(its) :
        /\ ~IsExcluded(its[i])
        /\ its[i].id # ""
        /\ its[i].download_status = "success"
        /\ its[i].id \notin art.markdown
        /\ its[i].local_path # ""
        /\ its[i].id \in art.pdfs}

\* convert_papers(items, ..., skip_existing=True); fails: conversions that fail
convert_papers(fails) ==
    /\ artifacts' = [artifacts EXCEPT !.markdown =
                        @ \cup {persisted[i].id : i \in ConvertAttempts(persisted, artifacts) \ fails}]
    /\ clock' = clock + 1
    /\ UNCHANGED <<raw, persisted, retry>>

ConvertPapers ==
    /\ pc = "project"
    /\ clock <= MaxCommands
    /\ \E fails \in SUBSET ConvertAttempts(persisted, artifacts) : convert_papers(fails)
    /\ UNCHANGED <<pc, dedupVars, mergeVars>>

\* analyze.py:364-382: the positions analyze_paper is called for
AnalyzeAttempts(its, art) ==
    {i \in 1..Len(its) :
        /\ ~IsExcluded(its[i])
        /\ its[i].id # ""
        /\ its[i].download_status = "success"
        /\ its[i].id \notin art.analyses}

\* analyze_papers(items, ..., skip_existing=True) with an LLM configured; fails: the
\* calls of analyze_paper that raise
analyze_papers(fails) ==
    /\ artifacts' = [artifacts EXCEPT !.analyses =
                        @ \cup {persisted[i].id : i \in AnalyzeAttempts(persisted, artifacts) \ fails}]
    /\ clock' = clock + 1
    /\ UNCHANGED <<raw, persisted, retry>>

AnalyzePapers ==
    /\ pc = "project"
    /\ clock <= MaxCommands
    /\ \E fails \in SUBSET AnalyzeAttempts(persisted, artifacts) : analyze_papers(fails)
    /\ UNCHANGED <<pc, dedupVars, mergeVars>>

\* cli.py:544 and 571, index.py:240-243: the items the index is generated from
ActiveItems(its) == {i \in 1..Len(its) : ~IsExcluded(its[i])}

\* cmd_index (cli.py:524-576).  With analyses on disk and without --legacy, a report
\* is written for every active item that has an analysis and index.md lists those
\* and the active items whose download failed (index.py:240-256); otherwise
\* index.md lists every active item and no report is written.
cmd_index(legacy) ==
    LET active   == ActiveItems(persisted)
        analysed == {i \in active : persisted[i].id \in artifacts.analyses}
        failed   == {i \in active \ analysed : persisted[i].download_status = "failed"}
    IN  /\ artifacts' =
              IF artifacts.analyses # {} /\ ~legacy
              THEN [artifacts EXCEPT
                      !.reports = @ \cup {persisted[i].id : i \in analysed},
                      !.index   = {persisted[i].id : i \in analysed \cup failed}]
              ELSE [artifacts EXCEPT !.index = {persisted[i].id : i \in active}]
        /\ clock' = clock + 1
        /\ UNCHANGED <<raw, persisted, retry>>

CmdIndex ==
    /\ pc = "project"
    /\ clock <= MaxCommands
    /\ \E legacy \in BOOLEAN : cmd_index(legacy)
    /\ UNCHANGED <<pc, dedupVars, mergeVars>>

\* the forms of a persisted item the stages tell apart: reviewed or not, downloaded
\* or not, with or without a PDF URL
StageForms ==
    { [status |-> "active",   downloaded |-> FALSE, pdf |-> "http://pdf"],
      [status |-> "",         downloaded |-> FALSE, pdf |-> ""],
      [status |-> "active",   downloaded |-> TRUE,  pdf |-> "http://pdf"],
      [status |-> "excluded", downloaded |-> FALSE, pdf |-> "http://pdf"],
      [status |-> "excluded", downloaded |-> FALSE, pdf |-> ""],
      [status |-> "excluded", downloaded |-> TRUE,  pdf |-> "http://pdf"] }

\* the item at position i of items.json in the given form
StageItem(i, form) ==
    [ BlankItem EXCEPT
        !.id              = FormatId(i),
        !.title           = <<"a", "b">>,
        !.status          = form.status,
        !.urls            = [NoUrls("map") EXCEPT !.pdf = form.pdf],
        !.download_status = IF form.downloaded THEN "success" ELSE "pending",
        !.local_path      = IF form.downloaded
                            THEN make_local_path(FormatId(i) \o ".pdf") ELSE "",
        !.collected_at    = 1 ]

\* a project after search, review and possibly earlier downloads and analyses
StagesInit ==
    /\ pc = "project"
    /\ DedupIdle
    /\ MergeIdle
    /\ raw = [s \in Sources |-> NoFile]
    /\ clock = 1
    /\ retry = RetryIdle
    /\ \E forms \in ListsOf(StageForms, MaxItems) :
          LET got == {FormatId(i) : i \in {j \in 1..Len(forms) : forms[j].downloaded}}
          IN  /\ persisted = [i \in 1..Len(forms) |-> StageItem(i, forms[i])]
              /\ \E analysed \in {{}, got} :
                    artifacts = [NoArtifacts EXCEPT !.pdfs = got, !.analyses = analysed]

StagesNext == CmdDownload \/ ConvertPapers \/ AnalyzePapers \/ CmdIndex

SpecStages == StagesInit /\ [][StagesNext]_vars

----------------------------------------------------------------------------
(* The run of dedup, one loop iteration per step, followed by a second run *)
(* on its own output                                                       *)

\* the inputs: titles "ab", "Ab " (same normalised title) and "ba", each with no
\* identifier, DOI "x", DOI "https://doi.org/X" or arXiv id "r"; and the record with
\* an empty title and no identifier
DedupTitles == {<<"a", "b">>, <<"A", "b", " ">>, <<"b", "a">>}

DedupIdentifiers ==
    { NoIdentifiers("map"),
      [NoIdentifiers("map") EXCEPT !.doi = <<"x">>],
      [NoIdentifiers("map") EXCEPT !.doi = DoiPrefix \o <<"X">>],
      [NoIdentifiers("map") EXCEPT !.arxiv_id = <<"r">>] }

DedupUniverse ==
    { [BlankItem EXCEPT !.title = t, !.identifiers = ids] :
        t \in DedupTitles, ids \in DedupIdentifiers } \cup {BlankItem}

\* cli.py:315 passes 0.9; 0.5 makes distinct short titles similar enough
Thresholds == {<<9, 10>>, <<1, 2>>}

StartLoop(its) ==
    LET st == InitialLoop(its)
    IN  /\ items = its
        /\ idx = 1
        /\ seen = st.seen
        /\ stats = st.stats
        /\ owner = st.owner

LoopState == [seen |-> seen, stats |-> stats, owner |-> owner]

\* the first run of dedup about to start on a list of up to MaxItems records of
\* the universe, at one of the thresholds
DedupRunInit(universe, thresholds) ==
    /\ pc = "loop"
    /\ pass = 1
    /\ threshold \in thresholds
    /\ \E its \in ListsOf(universe, MaxItems) : StartLoop(its)
    /\ firstOut = NoResult
    /\ out = NoResult
    /\ MergeIdle
    /\ ProjectIdle

DedupInit ==
    /\ pc = "loop"
    /\ pass = 1
    /\ threshold \in Thresholds
    /\ \E its \in ListsOf(DedupUniverse, MaxItems) : StartLoop(its)
    /\ firstOut = NoResult
    /\ out = NoResult
    /\ MergeIdle
    /\ ProjectIdle

Advance(st) ==
    /\ seen' = st.seen
    /\ stats' = st.stats
    /\ owner' = st.owner
    /\ idx' = idx + 1
    /\ UNCHANGED <<pc, items, threshold, pass, firstOut, out, mergeVars, projectVars>>

\* lines 157-164
DedupExact ==
    /\ pc = "loop"
    /\ idx <= Len(items)
    /\ LET k == KeyIndex(seen, get_dedup_key(items[idx]))
       IN  /\ k # 0
           /\ Advance(MergeInto(LoopState, items[idx], k))

\* lines 166-176
DedupFuzzy ==
    /\ pc = "loop"
    /\ idx <= Len(items)
    /\ KeyIndex(seen, get_dedup_key(items[idx])) = 0
    /\ LET f == FirstSimilar(seen, items[idx], threshold)
       IN  /\ f # 0
           /\ Advance(MergeInto(LoopState, items[idx], f))

\* lines 178-179
DedupNew ==
    /\ pc = "loop"
    /\ idx <= Len(items)
    /\ KeyIndex(seen, get_dedup_key(items[idx])) = 0
    /\ FirstSimilar(seen, items[idx], threshold) = 0
    /\ Advance(NewRecord(LoopState, items[idx]))

\* lines 181-182
DedupReturn ==
    /\ pc = "loop"
    /\ idx > Len(items)
    /\ pc' = "done"
    /\ out' = DedupResult(LoopState)
    /\ UNCHANGED <<items, threshold, idx, seen, stats, owner, pass, firstOut>>
    /\ UNCHANGED <<mergeVars, projectVars>>

\* dedup called again on the list it returned, at the same threshold
DedupAgain ==
    /\ pc = "done"
    /\ pass = 1
    /\ pc' = "loop"
    /\ pass' = 2
    /\ firstOut' = out
    /\ LET st == InitialLoop(out.items)
       IN  /\ items' = out.items
           /\ idx' = 1
           /\ seen' = st.seen
           /\ stats' = st.stats
           /\ owner' = st.owner
    /\ UNCHANGED <<threshold, out, mergeVars, projectVars>>

DedupNext == DedupExact \/ DedupFuzzy \/ DedupNew \/ DedupReturn \/ DedupAgain

SpecDedup == DedupInit /\ [][DedupNext]_vars

----------------------------------------------------------------------------
(* The run of dedup on records of one paper that differ in the fields the   *)
(* merge policy combines                                                    *)

FieldRecord(title, doi, status, time, count, authors, source) ==
    [ BlankItem EXCEPT
        !.title           = title,
        !.identifiers     = [NoIdentifiers("map") EXCEPT !.doi = doi],
        !.download_status = status,
        !.collected_at    = time,
        !.citation_count  = count,
        !.authors         = authors,
        !.source          = source ]

StrSource(name) == [kind |-> "str", names |-> <<name>>]

ListSource(names) == [kind |-> "list", names |-> names]

\* six records titled "ab" without identifiers (one key), one titled "Ab " with a
\* DOI (another key, the same normalised title) and one titled "ba"; the timestamp
\* 13 is hour 3 at offset +1, the same instant as 2 and earlier than 3
FieldUniverse ==
    { FieldRecord(<<"a", "b">>, <<>>, "pending", NoTime, NoCount, <<>>, NoSource),
      FieldRecord(<<"a", "b">>, <<>>, "success", 2, 5, <<"x", "y">>, StrSource("arxiv")),
      FieldRecord(<<"a", "b">>, <<>>, "failed", 1, 0, <<"y", "z">>, StrSource("blog")),
      FieldRecord(<<"a", "b">>, <<>>, "unavailable", 13, 2, <<"y", "x">>,
                  ListSource(<<"blog", "arxiv">>)),
      FieldRecord(<<"a", "b">>, <<>>, AbsentStatus, AbsentTime, NoCount, <<"x", "", "x">>,
                  StrSource("")),
      FieldRecord(<<"a", "b">>, <<>>, "pending", 1, 5, <<>>,
                  ListSource(<<"", "arxiv", "arxiv">>)),
      FieldRecord(<<"A", "b", " ">>, <<"x">>, "failed", 3, 2, <<"z">>, StrSource("openalex")),
      FieldRecord(<<"b", "a">>, <<>>, "success", 1, NoCount, <<"w">>, StrSource("arxiv")) }

FieldsNext == DedupExact \/ DedupFuzzy \/ DedupNew \/ DedupReturn

SpecFields == DedupRunInit(FieldUniverse, {SearchThreshold}) /\ [][FieldsNext]_vars

----------------------------------------------------------------------------
(* The run of dedup on records whose titles are shorter and longer than the *)
(* 80 characters an audit entry keeps                                       *)

\* a title one character longer than the audit entries keep
LongTitle == [i \in 1..(TitleCut + 1) |-> "a"]

\* titles "ab", "Ab " (with a DOI) and "ba", and two titles of 81 and 82 characters
\* with the same normalised form
StatsUniverse ==
    { FieldRecord(<<"a", "b">>, <<>>, "pending", 1, NoCount, <<>>, StrSource("arxiv")),
      FieldRecord(<<"A", "b", " ">>, <<"x">>, "pending", 2, NoCount, <<>>, StrSource("blog")),
      FieldRecord(<<"b", "a">>, <<>>, "pending", 1, NoCount, <<>>, StrSource("arxiv")),
      FieldRecord(LongTitle, <<>>, "pending", 2, NoCount, <<>>, StrSource("arxiv")),
      FieldRecord(LongTitle \o <<" ">>, <<>>, "pending", 1, NoCount, <<>>, StrSource("blog")) }

SpecStats == DedupRunInit(StatsUniverse, {SearchThreshold}) /\ [][FieldsNext]_vars

----------------------------------------------------------------------------
(* The run of dedup on titles of which one is similar to two others that are *)
(* not similar to each other                                                *)

\* titles "a", "bb" (similarity 0 to each other) and "abb" (similarity 0.5 to
\* "a", 0.8 to "bb"), the last also with DOI x
FuzzyUniverse ==
    { [BlankItem EXCEPT !.title = <<"a">>],
      [BlankItem EXCEPT !.title = <<"b", "b">>],
      [BlankItem EXCEPT !.title = <<"a", "b", "b">>],
      [BlankItem EXCEPT !.title = <<"a", "b", "b">>,
                        !.identifiers = [NoIdentifiers("map") EXCEPT !.doi = <<"x">>]] }

SpecFuzzy == DedupRunInit(FuzzyUniverse, Thresholds) /\ [][FieldsNext]_vars

----------------------------------------------------------------------------
(* The run of dedup on records that differ in the slots a merge fills and in *)
(* their download state                                                      *)

\* a record whose ten fillable slots hold v[1..10]: abstract, summary, date,
\* identifiers.doi, identifiers.arxiv_id, identifiers.openalex_id, urls.pdf,
\* urls.abstract, urls.publisher, local_path ("" for an empty slot)
SlotRecord(title, v, status, error) ==
    [ BlankItem EXCEPT
        !.title           = title,
        !.abstract        = v[1],
        !.summary         = v[2],
        !.date            = v[3],
        !.identifiers     = [ state       |-> "map",
                              doi         |-> IF v[4] = "" THEN <<>> ELSE <<v[4]>>,
                              arxiv_id    |-> IF v[5] = "" THEN <<>> ELSE <<v[5]>>,
                              openalex_id |-> v[6] ],
        !.urls            = [ state |-> "map", pdf |-> v[7], abstract |-> v[8],
                              publisher |-> v[9] ],
        !.local_path      = v[10],
        !.download_status = status,
        !.download_error  = error ]

\* five records titled "ab" and two titled "ba": no slot filled, the odd ones, the
\* even ones, or all of them
SlotUniverse ==
    LET none    == [s \in 1..10 |-> ""]
        all(x)  == [s \in 1..10 |-> x]
        odd(x)  == [s \in 1..10 |-> IF s % 2 = 1 THEN x ELSE ""]
        even(x) == [s \in 1..10 |-> IF s % 2 = 0 THEN x ELSE ""]
    IN  { SlotRecord(<<"a", "b">>, none, "pending", ""),
          SlotRecord(<<"a", "b">>, odd("p"), "failed", ""),
          SlotRecord(<<"a", "b">>, even("q"), "failed", "e"),
          SlotRecord(<<"a", "b">>, all("q"), "unavailable", ""),
          SlotRecord(<<"a", "b">>, all("p"), "success", "f"),
          SlotRecord(<<"b", "a">>, none, "unavailable", "g"),
          SlotRecord(<<"b", "a">>, all("p"), "failed", "") }

SpecSlots == DedupRunInit(SlotUniverse, {SearchThreshold}) /\ [][FieldsNext]_vars

----------------------------------------------------------------------------
(* The run of dedup on records whose DOIs differ in letter case, in the      *)
(* https://doi.org/ prefix, or altogether                                    *)

DoiRecord(title, doi) ==
    [BlankItem EXCEPT !.title = title, !.identifiers = [NoIdentifiers("map") EXCEPT !.doi = doi]]

\* DOIs x, X, https://doi.org/x, Https://doi.org/x (the prefix with its first
\* letter in upper case) and y on the titles "ab" and "ba", and the DOIs
\* xhttps://doi.org/ and https://doi.org/xhttps://doi.org/
DoiUniverse ==
    { DoiRecord(t, d) :
        t \in {<<"a", "b">>, <<"b", "a">>},
        d \in {<<"x">>, <<"X">>, DoiPrefix \o <<"x">>,
               <<"H">> \o Tail(DoiPrefix) \o <<"x">>, <<"y">>} }
    \cup { DoiRecord(<<"a", "b">>, <<"x">> \o DoiPrefix),
           DoiRecord(<<"b", "a">>, DoiPrefix \o <<"x">> \o DoiPrefix) }

SpecDoi == DedupRunInit(DoiUniverse, {SearchThreshold}) /\ [][FieldsNext]_vars

----------------------------------------------------------------------------
(* The run of dedup on titles of four letters, whose similarity the loop     *)
(* computes with the incoming title as the first argument                    *)

\* the titles "aaba", "baaa", "abab", "ab", "Ab " and the empty title
SimilarityUniverse ==
    { [BlankItem EXCEPT !.title = t] :
        t \in { <<"a", "a", "b", "a">>, <<"b", "a", "a", "a">>, <<"a", "b", "a", "b">>,
                <<"a", "b">>, <<"A", "b", " ">>, <<>> } }

SpecSimilarity == DedupRunInit(SimilarityUniverse, Thresholds) /\ [][FieldsNext]_vars

----------------------------------------------------------------------------
(* The run of dedup on records without a title                               *)

\* the record with an empty title and no identifier, the ones with an empty
\* title and a DOI or an arXiv id, and the titled record "ab" with and without DOI
BlankUniverse ==
    { BlankItem,
      DoiRecord(<<>>, <<"x">>),
      [BlankItem EXCEPT !.identifiers = [NoIdentifiers("map") EXCEPT !.arxiv_id = <<"r">>]],
      DoiRecord(<<"a", "b">>, <<>>),
      DoiRecord(<<"a", "b">>, <<"x">>) }

SpecBlank == DedupRunInit(BlankUniverse, Thresholds) /\ [][FieldsNext]_vars

----------------------------------------------------------------------------
(* The run of merge_results, one input file per step *)

MaxFiles == 2

\* raw records as a collector or an earlier run may have written them
RawRecord ==
    [ BlankItem EXCEPT
        !.title           = <<"a", "b">>,
        !.identifiers     = NoIdentifiers("absent"),
        !.urls            = NoUrls("absent"),
        !.download_status = AbsentStatus,
        !.collected_at    = AbsentTime ]

RecordWithId == [RawRecord EXCEPT !.id = "i0002"]

RecordWithNulls ==
    [RawRecord EXCEPT !.identifiers = NoIdentifiers("null"), !.urls = NoUrls("null")]

\* a record whose source is the empty string and whose collected_at is null
RecordWithEmpties ==
    [ RawRecord EXCEPT
        !.source       = [kind |-> "str", names |-> <<"">>],
        !.collected_at = NoTime ]

RecordWithFields ==
    [ RawRecord EXCEPT
        !.title        = <<"b", "a">>,
        !.identifiers  = [NoIdentifiers("map") EXCEPT !.doi = <<"x">>],
        !.urls         = [NoUrls("map") EXCEPT !.pdf = "http://pdf/ba"],
        !.source       = [kind |-> "str", names |-> <<"blog">>],
        !.download_status = "unavailable",
        !.collected_at = 1 ]

FileOf(shape, records, source, timestamp) ==
    [ exists |-> TRUE, shape |-> shape, records |-> records,
      source |-> source, timestamp |-> timestamp ]

\* the input files: a path that does not exist, a JSON value that is neither a
\* sequence nor an items or results wrapper, and files of the three accepted shapes
MergeFiles ==
    { NoFile,
      FileOf("other", <<>>, "", NoTime),
      FileOf("list", <<>>, "", NoTime),
      FileOf("list", <<RawRecord, RecordWithId>>, "", NoTime),
      FileOf("items", <<RecordWithId>>, "", NoTime),
      FileOf("items", <<RecordWithNulls>>, "openalex", 2),
      FileOf("results", <<RawRecord, RecordWithFields>>, "arxiv", 2),
      FileOf("results", <<RecordWithEmpties>>, "arxiv", 2),
      FileOf("results", <<RawRecord>>, "", NoTime) }

\* utc_now_iso() during the merge: after the timestamps the files carry
MergeTimes == {3, 4}

MergeInit ==
    /\ pc = "merge"
    /\ input_files \in ListsOf(MergeFiles, MaxFiles)
    /\ fileIdx = 1
    /\ loaded = <<>>
    /\ result = [ok |-> TRUE, error |-> "", items |-> <<>>]
    /\ clock \in MergeTimes
    /\ raw = <<>>
    /\ persisted = <<>>
    /\ artifacts = NoArtifacts
    /\ retry = RetryIdle
    /\ DedupIdle

\* lines 77-78
MergeRaise ==
    /\ pc = "merge"
    /\ fileIdx <= Len(input_files)
    /\ SourceMissing(input_files[fileIdx])
    /\ pc' = "raised"
    /\ result' = Raised("FileNotFoundError")
    /\ UNCHANGED <<input_files, fileIdx, loaded, dedupVars, projectVars>>

\* line 79
MergeLoad ==
    /\ pc = "merge"
    /\ fileIdx <= Len(input_files)
    /\ ~SourceMissing(input_files[fileIdx])
    /\ loaded' = loaded \o load_items_from_file(input_files[fileIdx])
    /\ fileIdx' = fileIdx + 1
    /\ UNCHANGED <<pc, input_files, result, dedupVars, projectVars>>

\* lines 81-85
MergeReturn ==
    /\ pc = "merge"
    /\ fileIdx > Len(input_files)
    /\ pc' = "returned"
    /\ result' = Returned(loaded, clock)
    /\ UNCHANGED <<input_files, fileIdx, loaded, dedupVars, projectVars>>

MergeNext == MergeRaise \/ MergeLoad \/ MergeReturn

SpecMerge == MergeInit /\ [][MergeNext]_vars

----------------------------------------------------------------------------
(* assign_ids on a list of records, some of which carry an id *)

MaxIdItems == 5

IdValues == {"", "i0001", "i0002", "i0004"}

IdRecords == {[ensure_fields(RawRecord, 1) EXCEPT !.id = v] : v \in IdValues}

AssignInit ==
    /\ pc = "assign"
    /\ loaded \in ListsOf(IdRecords, MaxIdItems)
    /\ input_files = <<>>
    /\ fileIdx = 0
    /\ result = [ok |-> TRUE, error |-> "", items |-> <<>>]
    /\ DedupIdle
    /\ ProjectIdle

AssignIds ==
    /\ pc = "assign"
    /\ pc' = "assigned"
    /\ result' = [ok |-> TRUE, error |-> "", items |-> assign_ids(loaded)]
    /\ UNCHANGED <<input_files, fileIdx, loaded, dedupVars, projectVars>>

SpecAssign == AssignInit /\ [][AssignIds]_vars

----------------------------------------------------------------------------
(* download_pdfs on a list of items, some excluded, some downloaded earlier, *)
(* some without a PDF URL                                                    *)

\* the forms of an item download_pdfs tells apart
DownloadForms ==
    { [status |-> "",         download_status |-> "pending", local |-> FALSE, pdf |-> "http://pdf"],
      [status |-> "",         download_status |-> "pending", local |-> FALSE, pdf |-> ""],
      [status |-> "active",   download_status |-> "success", local |-> TRUE,  pdf |-> "http://pdf"],
      [status |-> "",         download_status |-> "success", local |-> FALSE, pdf |-> "http://pdf"],
      [status |-> "",         download_status |-> "success", local |-> FALSE, pdf |-> ""],
      [status |-> "active",   download_status |-> "failed",  local |-> FALSE, pdf |-> "http://pdf"],
      [status |-> "excluded", download_status |-> "success", local |-> TRUE,  pdf |-> "http://pdf"],
      [status |-> "excluded", download_status |-> "failed",  local |-> FALSE, pdf |-> "http://pdf"] }

\* the item at position i in the given form
DownloadItem(i, form) ==
    [ BlankItem EXCEPT
        !.id              = FormatId(i),
        !.title           = <<"a", "b">>,
        !.status          = form.status,
        !.urls            = [NoUrls("map") EXCEPT !.pdf = form.pdf],
        !.download_status = form.download_status,
        !.download_error  = IF form.download_status = "failed" THEN "error" ELSE "",
        !.local_path      = IF form.local THEN make_local_path(FormatId(i) \o ".pdf") ELSE "",
        !.collected_at    = 1 ]

DownloadInit ==
    /\ pc = "download"
    /\ \E forms \in ListsOf(DownloadForms, MaxItems) :
          loaded = [i \in 1..Len(forms) |-> DownloadItem(i, forms[i])]
    /\ input_files = <<>>
    /\ fileIdx = 0
    /\ result = [ok |-> TRUE, error |-> "", items |-> <<>>]
    /\ DedupIdle
    /\ ProjectIdle

\* download_pdfs(items, output_dir): items as the call leaves them and the
\* l1_stats of the dict it returns
DownloadPdfs ==
    /\ pc = "download"
    /\ pc' = "downloaded"
    /\ \E fails \in SUBSET DownloadAttempts(loaded) :
          result' = [ ok |-> TRUE, error |-> "",
                      items    |-> download_pdfs(loaded, fails),
                      l1_stats |-> l1_stats(loaded, fails) ]
    /\ UNCHANGED <<input_files, fileIdx, loaded, dedupVars, projectVars>>

SpecDownload == DownloadInit /\ [][DownloadPdfs]_vars

----------------------------------------------------------------------------
(* download/direct.py: download_with_retry, one iteration of its for loop    *)
(* per step.  retry.file is what is at the target path: "none", "old" (a     *)
(* file that was there before the call), "junk" (written by an attempt, not  *)
(* a PDF) or "pdf".  retry.tried is the history of the attempts made: how    *)
(* each ended and what unlink did ("none": not called, "removed", "failed":  *)
(* it raised OSError).                                                       *)

\* the largest max_retries of the model (download_pdfs passes 3, direct.py:123)
MaxRetries == 3

\* what an attempt can end in: requests.get raises (line 55), the status is not
\* 200 (56-57), open raises (64), the stream breaks after the file was opened
\* (65-68), the file is complete but no PDF (72-73), or a PDF arrived (75)
Outcomes == {"get", "http", "open", "stream", "notpdf", "ok"}

\* str(exc), line 83: the two messages direct.py raises itself, and a message of
\* the library or the operating system for the other exceptions
Message(outcome) ==
    CASE outcome = "http"   -> "HTTP 404"
      [] outcome = "notpdf" -> "Downloaded file is not a PDF"
      [] OTHER              -> "error"

\* the target path when the attempt leaves the try block: open(path, "wb")
\* replaces what was there
Written(file, outcome) ==
    CASE outcome \in {"get", "http", "open"} -> file
      [] outcome \in {"stream", "notpdf"}    -> "junk"
      [] OTHER                               -> "pdf"

\* no cleanup after a failed attempt
Cleanup_Skip(file, unlinks) == file

\* lines 77-81: path.unlink() if the path exists; an OSError it raises is ignored
Cleanup(file, unlinks) == IF file # "none" /\ unlinks THEN "none" ELSE file

\* line 53: the loop body runs for attempt in range(max_retries)
RetryAttempt ==
    /\ pc = "retry"
    /\ retry.returned = "running"
    /\ retry.attempt < retry.max_retries
    /\ \E outcome \in Outcomes, unlinks \in BOOLEAN :
          LET written == Written(retry.file, outcome)
              left    == Cleanup(written, unlinks)
              entry   == [ outcome |-> outcome,
                           cleanup |-> IF outcome = "ok" \/ written = "none" THEN "none"
                                       ELSE IF unlinks THEN "removed" ELSE "failed" ]
          IN  retry' =
                IF outcome = "ok"
                THEN [retry EXCEPT !.tried = Append(@, entry), !.file = written,
                                   !.returned = "None"]
                ELSE IF retry.attempt = retry.max_retries - 1
                THEN [retry EXCEPT !.tried = Append(@, entry), !.file = left,
                                   !.returned = Message(outcome)]
                ELSE [retry EXCEPT !.tried = Append(@, entry), !.file = left,
                                   !.attempt = @ + 1]
    /\ UNCHANGED <<pc, dedupVars, mergeVars, raw, persisted, clock, artifacts>>

\* line 87: the loop ended without a return
RetryGiveUp ==
    /\ pc = "retry"
    /\ retry.returned = "running"
    /\ retry.attempt >= retry.max_retries
    /\ retry' = [retry EXCEPT !.returned = "Download failed"]
    /\ UNCHANGED <<pc, dedupVars, mergeVars, raw, persisted, clock, artifacts>>

RetryInit ==
    /\ pc = "retry"
    /\ DedupIdle
    /\ MergeIdle
    /\ raw = <<>>
    /\ persisted = <<>>
    /\ clock = 0
    /\ artifacts = NoArtifacts
    /\ \E m \in 0..MaxRetries, f \in {"none", "old"} :
          retry = [ max_retries |-> m, attempt |-> 0, tried |-> <<>>, file |-> f,
                    returned |-> "running" ]

RetryNext == RetryAttempt \/ RetryGiveUp

\* the loop goes on until the function returns
SpecRetry == RetryInit /\ [][RetryNext]_vars /\ WF_vars(RetryNext)

----------------------------------------------------------------------------
(* merge_results followed by dedup, as cmd_search runs them (cli.py:304 and  *)
(* 315), on raw files whose records carry source in every form              *)

SourcedRecord(title, source) == [RawRecord EXCEPT !.title = title, !.source = source]

PipelineFiles ==
    { FileOf("list", <<SourcedRecord(<<"a", "b">>, StrSource("arxiv"))>>, "", NoTime),
      FileOf("list", <<SourcedRecord(<<"a", "b">>, ListSource(<<"", "arxiv">>))>>, "", NoTime),
      FileOf("list", <<SourcedRecord(<<"a", "b">>, NoSource),
                       SourcedRecord(<<"b", "a">>, StrSource(""))>>, "", NoTime),
      FileOf("results", <<SourcedRecord(<<"a", "b">>, NoSource)>>, "blog", 2),
      FileOf("items", <<SourcedRecord(<<"b", "a">>, ListSource(<<"blog", "arxiv">>))>>,
             "", NoTime),
      FileOf("items", <<>>, "", NoTime) }

PipelineInit ==
    /\ pc = "pipeline"
    /\ input_files \in ListsOf(PipelineFiles, MaxFiles)
    /\ fileIdx = 0
    /\ loaded = <<>>
    /\ result = [ok |-> TRUE, error |-> "", items |-> <<>>]
    /\ clock \in MergeTimes
    /\ raw = <<>>
    /\ persisted = <<>>
    /\ artifacts = NoArtifacts
    /\ retry = RetryIdle
    /\ DedupIdle

\* cli.py:304
PipelineMerge ==
    /\ pc = "pipeline"
    /\ pc' = "merged"
    /\ result' = merge_results(input_files, clock)
    /\ UNCHANGED <<input_files, fileIdx, loaded, dedupVars, projectVars>>

\* cli.py:315
PipelineDedup ==
    /\ pc = "merged"
    /\ result.ok
    /\ pc' = "deduped"
    /\ out' = dedup(result.items, SearchThreshold)
    /\ UNCHANGED <<items, threshold, idx, seen, stats, owner, pass, firstOut>>
    /\ UNCHANGED <<mergeVars, projectVars>>

PipelineNext == PipelineMerge \/ PipelineDedup

SpecPipeline == PipelineInit /\ [][PipelineNext]_vars

----------------------------------------------------------------------------
(* The project: commands run one after the other on one project directory *)

ProjectNext == CmdSearch \/ CmdDownload

SpecProject == ProjectInit /\ [][ProjectNext]_vars

----------------------------------------------------------------------------
(* Properties of dedup (SpecDedup) *)

Returned1 == pc = "done" /\ pass = 1

Returned2 == pc = "done" /\ pass = 2

NormalizedDoi(item) == normalize_doi(item.identifiers.doi)

\* C1: in the list dedup returns, no two items have the same identity key, the key
\* being get_dedup_key of the returned (post-merge) fields.
C1_NoSharedKey ==
    pc = "done" =>
        \A i, j \in 1..Len(out.items) :
            i # j => get_dedup_key(out.items[i]) # get_dedup_key(out.items[j])

\* C2: dedup applied to its own output, at the same threshold, returns the same
\* records with the same field values and reports no duplicate.
C2_Idempotent ==
    Returned2 => /\ out.items = firstOut.items
                 /\ out.stats.duplicates = 0

\* C3: two input items with the same non-empty normalized DOI end up in the same
\* surviving record, whatever their titles and whatever precedes or separates them.
C3_SameDoiSameRecord ==
    Returned1 =>
        \A i, j \in 1..Len(items) :
            (NormalizedDoi(items[i]) # <<>> /\ NormalizedDoi(items[i]) = NormalizedDoi(items[j]))
                => owner[i] = owner[j]

----------------------------------------------------------------------------
(* Properties of merge_results (SpecMerge) and assign_ids (SpecAssign) *)

IdsOf(its) == [i \in 1..Len(its) |-> its[i].id]

\* C4: the ids of the items merge_results returns are pairwise distinct, also when
\* the input records already carry ids.
C4_DistinctIds ==
    pc = "returned" =>
        \A i, j \in 1..Len(result.items) :
            i # j => result.items[i].id # result.items[j].id

\* the ids carried on input, and those minted for the id-less records before p
PreExisting(before) == {before[i].id : i \in {j \in 1..Len(before) : before[j].id # ""}}

MintedBefore(before, after, p) ==
    {after[q].id : q \in {j \in 1..(p - 1) : before[j].id = ""}}

\* the smallest positive counter whose formatted id is not in used
SmallestFree(used) ==
    CHOOSE k \in 1..(Cardinality(used) + 1) :
        /\ FormatId(k) \notin used
        /\ \A m \in 1..(k - 1) : FormatId(m) \in used

\* C7: assign_ids changes nothing but absent ids; every record that has an id keeps
\* it; each record without one gets, in input order, i<k> for the smallest positive
\* k whose id is neither pre-existing nor minted before it; N records without ids
\* get i0001..iNNNN; around a pre-existing i0002 the other four of five records get
\* i0001, i0003, i0004, i0005.
C7_AssignIds ==
    pc = "assigned" =>
        LET before == loaded
            after  == result.items
        IN  /\ Len(after) = Len(before)
            /\ \A p \in 1..Len(before) :
                  /\ [after[p] EXCEPT !.id = before[p].id] = before[p]
                  /\ before[p].id # "" => after[p].id = before[p].id
                  /\ before[p].id = "" =>
                        after[p].id =
                            FormatId(SmallestFree(PreExisting(before)
                                                  \cup MintedBefore(before, after, p)))
            /\ IdsOf(before) = <<"", "", "", "", "">> =>
                  IdsOf(after) = <<"i0001", "i0002", "i0003", "i0004", "i0005">>
            /\ IdsOf(before) = <<"", "", "", "i0002", "">> =>
                  IdsOf(after) = <<"i0001", "i0003", "i0004", "i0002", "i0005">>

\* C7 witness: the five records of the scenario, the fourth carrying i0002, assigned
C7_Witness ==
    /\ pc = "assigned"
    /\ IdsOf(loaded) = <<"", "", "", "i0002", "">>
    /\ IdsOf(result.items) = <<"i0001", "i0003", "i0004", "i0002", "i0005">>

\* C8: every item merge_results returns has identifiers and urls that are mappings,
\* also for records that carry the key with a null value.
C8_MappingsNonNull ==
    pc = "returned" =>
        \A i \in 1..Len(result.items) :
            /\ result.items[i].identifiers.state = "map"
            /\ result.items[i].urls.state = "map"

MergeEnded == pc \in {"raised", "returned"}

\* C9: when one of the input files does not exist, merge_results ends with an error
\* and no item list, whatever the files before it held; it never returns normally.
C9_MissingSourceFails ==
    (MergeEnded /\ \E i \in 1..Len(input_files) : ~input_files[i].exists)
        => /\ pc = "raised"
           /\ ~result.ok
           /\ result.error # ""
           /\ result.items = <<>>

\* C9 witness: records of an existing file were loaded and a later file is missing
C9_Witness ==
    /\ pc = "raised"
    /\ loaded # <<>>
    /\ \E i \in 1..Len(input_files) : i < fileIdx /\ input_files[i].records # <<>>
    /\ ~input_files[fileIdx].exists

\* C10: when every input file exists and one of them is neither a sequence nor an
\* items or results wrapper, merge ends with an invalid-input-format error: the file
\* is never taken as a source of zero records.
C10_MalformedRejected ==
    ( /\ MergeEnded
      /\ \A i \in 1..Len(input_files) : input_files[i].exists
      /\ \E i \in 1..Len(input_files) : input_files[i].shape = "other" )
        => /\ ~result.ok
           /\ result.error = "InvalidInputFormatError"

----------------------------------------------------------------------------
(* Properties of the project across commands (SpecProject) *)

\* the same discovered paper: the papers of the model differ in their titles
SameRecord(a, b) == normalize_title(a.title) = normalize_title(b.title)

\* C5: an id, once a record is persisted with it, is never given to another record
\* and the record, while it is persisted, keeps it.
C5_IdsNeverReassigned ==
    [][ \A i \in 1..Len(persisted) : \A j \in 1..Len(persisted') :
            /\ persisted'[j].id = persisted[i].id => SameRecord(persisted[i], persisted'[j])
            /\ SameRecord(persisted[i], persisted'[j]) => persisted'[j].id = persisted[i].id
      ]_vars

\* C6: an item the download stage marked success with a local_path stays persisted
\* with that download_status and local_path through every later command.
C6_DownloadStatePersists ==
    [][ \A i \in 1..Len(persisted) :
            (persisted[i].download_status = "success" /\ persisted[i].local_path # "")
                => \E j \in 1..Len(persisted') :
                      /\ SameRecord(persisted[i], persisted'[j])
                      /\ persisted'[j].download_status = "success"
                      /\ persisted'[j].local_path = persisted[i].local_path
                      /\ persisted'[j].status = persisted[i].status
      ]_vars

----------------------------------------------------------------------------
(* Properties of load_items_from_file (SpecMerge) *)

\* the records the step appended to loaded
JustLoaded == SubSeq(loaded', Len(loaded) + 1, Len(loaded'))

\* a record without a source of its own: no key, an empty string, an empty list
LacksSource(rec) ==
    \/ rec.source.kind = "absent"
    \/ rec.source.names = <<>>
    \/ rec.source.names = <<"">>

LacksCollectedAt(rec) == rec.collected_at <= NoTime

\* C11: loading a results wrapper gives each record without a source the wrapper's
\* source and each record without a collected_at the wrapper's timestamp; a record's
\* own source and collected_at are kept; no other field changes; a bare sequence and
\* an items wrapper are loaded as they are.
C11_Propagation ==
    [][ (pc = "merge" /\ fileIdx' = fileIdx + 1) =>
          LET f == input_files[fileIdx]
          IN  /\ f.shape \in {"list", "items"} => JustLoaded = f.records
              /\ f.shape = "results" =>
                    /\ Len(JustLoaded) = Len(f.records)
                    /\ \A i \in 1..Len(f.records) :
                          LET rec == f.records[i]
                              got == JustLoaded[i]
                          IN  /\ [got EXCEPT !.source = rec.source,
                                              !.collected_at = rec.collected_at] = rec
                              /\ got.source =
                                    IF LacksSource(rec) /\ f.source # ""
                                    THEN [kind |-> "str", names |-> <<f.source>>]
                                    ELSE rec.source
                              /\ got.collected_at =
                                    IF LacksCollectedAt(rec) /\ f.timestamp > NoTime
                                    THEN f.timestamp
                                    ELSE rec.collected_at
      ]_vars

\* C11 witness: a results wrapper with source and timestamp was loaded; its record
\* without either now carries the wrapper's, its record with both still has its own
C11_Witness ==
    /\ pc = "merge"
    /\ fileIdx = 2
    /\ input_files[1].shape = "results"
    /\ input_files[1].source = "arxiv"
    /\ input_files[1].records = <<RawRecord, RecordWithFields>>
    /\ loaded[1].source = [kind |-> "str", names |-> <<"arxiv">>]
    /\ loaded[1].collected_at = 2
    /\ loaded[2].source = RecordWithFields.source
    /\ loaded[2].collected_at = 1

----------------------------------------------------------------------------
(* Properties of the fuzzy title match (SpecDedup) *)

\* the two items have different identity keys and no DOI or arXiv id in common
NoSharedIdentifier(a, b) ==
    /\ get_dedup_key(a) # get_dedup_key(b)
    /\ NormalizedDoi(a) = <<>> \/ NormalizedDoi(a) # NormalizedDoi(b)
    /\ a.identifiers.arxiv_id = <<>> \/ a.identifiers.arxiv_id # b.identifiers.arxiv_id

\* the similarity of the normalized titles of the incoming and the stored item is
\* at least the threshold
SimilarTitles(incoming, stored) ==
    LET r == SequenceMatcherRatio(normalize_title(incoming.title),
                                  normalize_title(stored.title))
    IN  r[1] * threshold[2] >= threshold[1] * r[2]

\* C12: for two items that share no identifier, dedup returns one record exactly
\* when the similarity of their normalized titles is at least the threshold, and
\* returns both records as they were when it is below.
C12_FuzzyThreshold ==
    (Returned1 /\ Len(items) = 2 /\ NoSharedIdentifier(items[1], items[2])) =>
        IF SimilarTitles(items[2], items[1])
        THEN Len(out.items) = 1 /\ out.stats.duplicates = 1
        ELSE out.items = items /\ out.stats.duplicates = 0

\* C12 witness: titles "ab" and "ba", similarity exactly 0.5, merged at threshold 0.5
C12_Witness ==
    /\ Returned1
    /\ Len(items) = 2
    /\ NoSharedIdentifier(items[1], items[2])
    /\ items[1].title = <<"a", "b">>
    /\ items[2].title = <<"b", "a">>
    /\ threshold = <<1, 2>>
    /\ Len(out.items) = 1

----------------------------------------------------------------------------
(* Properties of the field merge policy (SpecFields) *)

\* the input positions merged into the k-th surviving record, its founder included
Group(k) == {i \in 1..Len(items) : owner[i] = k}

Founder(k) == CHOOSE i \in Group(k) : \A j \in Group(k) : i <= j

\* the priority order of the download statuses
StatusRank(status) ==
    CASE status = "success"     -> 3
      [] status = "pending"     -> 2
      [] status = "failed"      -> 1
      [] status = "unavailable" -> 0

\* a record without a download_status counts as pending
StatusOf(item) ==
    IF item.download_status = AbsentStatus THEN "pending" ELSE item.download_status

\* C13: where duplicates were merged, the surviving record's download_status is the
\* status of highest priority (success > pending > failed > unavailable) among the
\* records merged into it, the earliest of them on equal priority.
C13_BestStatusWins ==
    Returned1 =>
        \A k \in 1..Len(out.items) :
            Cardinality(Group(k)) > 1 =>
                LET rank(i) == StatusRank(StatusOf(items[i]))
                    best == CHOOSE i \in Group(k) :
                                \A j \in Group(k) :
                                    rank(i) > rank(j) \/ (rank(i) = rank(j) /\ i <= j)
                IN  out.items[k].download_status = StatusOf(items[best])

\* C13 witness: a failed record absorbed a pending and then a success one
C13_Witness ==
    /\ Returned1
    /\ Len(items) = 3
    /\ Group(1) = {1, 2, 3}
    /\ items[1].download_status = "failed"
    /\ items[2].download_status = "pending"
    /\ items[3].download_status = "success"
    /\ out.items[1].download_status = "success"

\* the collected_at values of the records merged into the k-th surviving record
GroupTimes(k) == {items[i].collected_at : i \in Group(k)} \ {NoTime, AbsentTime}

\* the instant a collected_at value denotes: its hour less its UTC offset
InstantOf(t) == (t % 10) - (t \div 10)

\* C14: the collected_at of every surviving record is the earliest collected_at of
\* the records merged into it, in whatever order they came; it has none only when
\* none of them has one.
C14_EarliestCollectedAt ==
    Returned1 =>
        \A k \in 1..Len(out.items) :
            IF GroupTimes(k) = {}
            THEN out.items[k].collected_at \in {NoTime, AbsentTime}
            ELSE /\ out.items[k].collected_at \in GroupTimes(k)
                 /\ \A t \in GroupTimes(k) :
                       InstantOf(out.items[k].collected_at) <= InstantOf(t)

\* C14 witness: the founder was collected at hour 3 UTC, a record without a timestamp
\* and one collected at hour 3 of offset +1, an hour earlier, were absorbed after it
C14_Witness ==
    /\ Returned1
    /\ Len(items) = 3
    /\ Group(1) = {1, 2, 3}
    /\ items[1].collected_at = 3
    /\ items[2].collected_at = NoTime
    /\ items[3].collected_at = 13
    /\ out.items[1].collected_at = 13

\* the citation counts of the records merged into the k-th surviving record
GroupCounts(k) == {items[i].citation_count : i \in Group(k)} \ {NoCount}

\* C15: the citation_count of every surviving record is the maximum of the counts of
\* the records merged into it, a null count standing for 0; it is null only when
\* none of them has a count.
C15_MaxCitationCount ==
    Returned1 =>
        \A k \in 1..Len(out.items) :
            IF GroupCounts(k) = {}
            THEN out.items[k].citation_count = NoCount
            ELSE /\ out.items[k].citation_count \in GroupCounts(k) \cup {0}
                 /\ \A c \in GroupCounts(k) \cup {0} : out.items[k].citation_count >= c

\* C15 witness: a record without a count absorbed one with 5 citations and then one
\* with 2; the survivor has 5
C15_Witness ==
    /\ Returned1
    /\ Len(items) = 3
    /\ Group(1) = {1, 2, 3}
    /\ items[1].citation_count = NoCount
    /\ items[2].citation_count = 5
    /\ items[3].citation_count = 2
    /\ out.items[1].citation_count = 5

----------------------------------------------------------------------------
(* Properties of one merge of an incoming record B into a stored record A   *)
(* (SpecFields): the steps of dedup that leave the number of records as it  *)
(* is                                                                       *)

MergeStep == pc = "loop" /\ idx' = idx + 1 /\ Len(seen') = Len(seen)

\* the stored record before the step, the incoming record, the record after it
StoredA == seen[owner'[idx]].item

IncomingB == items[idx]

MergedAB == seen'[owner'[idx]].item

NamesIn(s) == {s[i] : i \in 1..Len(s)}

NoRepeats(s) == \A i, j \in 1..Len(s) : i # j => s[i] # s[j]

FirstPos(s, x) == CHOOSE i \in 1..Len(s) : s[i] = x /\ \A j \in 1..(i - 1) : s[j] # x

\* m is a followed by the names of b that a does not have, each once, in the order
\* in which b first has them
AppendsNew(m, a, b) ==
    /\ Len(m) >= Len(a)
    /\ SubSeq(m, 1, Len(a)) = a
    /\ LET tail == SubSeq(m, Len(a) + 1, Len(m))
       IN  /\ NoRepeats(tail)
           /\ NamesIn(tail) = (NamesIn(b) \ NamesIn(a)) \ {""}
           /\ \A i, j \in 1..Len(tail) :
                 i < j => FirstPos(b, tail[i]) < FirstPos(b, tail[j])

\* the entries a record has in source: none without the key or with an empty
\* string, the string itself, or the list as it is
SourceEntries(item) ==
    IF item.source.kind = "str" /\ item.source.names = <<"">> THEN <<>>
    ELSE item.source.names

\* C16, as claimed: a merge keeps every entry A had in authors and in source, in
\* its place, appends B's entries that A did not have in B's order, and leaves
\* each name at most once in the merged list.
C16_AppendOnly ==
    [][ MergeStep =>
          /\ AppendsNew(MergedAB.authors, StoredA.authors, IncomingB.authors)
          /\ NoRepeats(MergedAB.authors)
          /\ AppendsNew(MergedAB.source.names, SourceEntries(StoredA),
                        SourceEntries(IncomingB))
          /\ NoRepeats(MergedAB.source.names)
      ]_vars

\* the non-empty entries of s, each at its first occurrence only
RECURSIVE FirstOccurrences(_)
FirstOccurrences(s) ==
    IF s = <<>> THEN <<>>
    ELSE LET init == FirstOccurrences(SubSeq(s, 1, Len(s) - 1))
             last == s[Len(s)]
         IN  IF last = "" \/ last \in NamesIn(init) THEN init ELSE Append(init, last)

\* C16, amended: the merged authors are A's distinct non-empty authors in the order
\* of their first occurrence, followed by B's names that A did not have, in B's
\* order, each once; the merged source is A's source entries as they are, followed
\* by B's names that A did not have, in B's order, each once.
C16_AppendOnlyAmended ==
    [][ MergeStep =>
          /\ AppendsNew(MergedAB.authors, FirstOccurrences(StoredA.authors),
                        IncomingB.authors)
          /\ AppendsNew(MergedAB.source.names, SourceEntries(StoredA),
                        SourceEntries(IncomingB))
          /\ MergedAB.source.kind = "list"
      ]_vars

\* C16 witness: authors x, y absorbed y, z and source "arxiv" absorbed "blog"
C16_Witness ==
    /\ pc = "loop"
    /\ idx = 3
    /\ Len(seen) = 1
    /\ items[1].authors = <<"x", "y">>
    /\ items[2].authors = <<"y", "z">>
    /\ seen[1].item.authors = <<"x", "y", "z">>
    /\ seen[1].item.source = [kind |-> "list", names |-> <<"arxiv", "blog">>]

----------------------------------------------------------------------------
(* Properties of merge_results followed by dedup (SpecPipeline) *)

\* C17: in every item merge_results followed by dedup produces, source is a
\* sequence of source names without an empty or null entry, whether the raw record
\* had a string, a list with empty entries, or no source.
C17_SourceNamesOnly ==
    pc = "deduped" =>
        \A i \in 1..Len(out.items) :
            /\ out.items[i].source.kind = "list"
            /\ \A n \in 1..Len(out.items[i].source.names) :
                  out.items[i].source.names[n] # ""

----------------------------------------------------------------------------
(* Properties of the stages after search (SpecStages) *)

\* the ids a step added to a set of written files
NewlyWritten(kind) == artifacts'[kind] \ artifacts[kind]

\* C18: an excluded item is skipped by every later stage and kept in storage: no
\* step downloads, converts, analyses or reports it, index.md never lists it, none
\* of its fields changes and it stays in the persisted list.
C18_ExcludedSkipped ==
    [][ \A i \in 1..Len(persisted) :
            persisted[i].status = "excluded" =>
                /\ Len(persisted') = Len(persisted)
                /\ persisted'[i] = persisted[i]
                /\ \A kind \in {"pdfs", "markdown", "analyses", "reports"} :
                      persisted[i].id \notin NewlyWritten(kind)
                /\ persisted[i].id \notin artifacts'.index
      ]_vars

\* C18 witness: download, analysis and indexing have run on a list with an excluded
\* item that has a PDF URL and one that was downloaded and analysed before its
\* exclusion; an active item was downloaded and reported, the excluded ones not
C18_Witness ==
    \E i, j, k \in 1..Len(persisted) :
        /\ persisted[i].status = "excluded"
        /\ persisted[i].urls.pdf # ""
        /\ persisted[i].download_status = "pending"
        /\ persisted[k].status = "excluded"
        /\ persisted[k].id \in artifacts.analyses
        /\ persisted[k].id \notin artifacts.reports
        /\ persisted[j].status = "active"
        /\ persisted[j].id \in artifacts.pdfs
        /\ persisted[j].id \in artifacts.reports
        /\ persisted[j].id \in artifacts.index
        /\ clock > 3

----------------------------------------------------------------------------
(* Properties of the stats dedup returns (SpecStats) *)

\* the input positions absorbed into a record another item founded
Absorbed == {i \in 1..Len(items) : Founder(owner[i]) # i}

\* e is the first 80 characters of title
IsCut(e, title) ==
    /\ Len(e) <= 80
    /\ Len(e) = IF Len(title) <= 80 THEN Len(title) ELSE 80
    /\ \A c \in 1..Len(e) : e[c] = title[c]

\* C19: the stats dedup returns have original = the length of the input, final =
\* the length of the returned list, duplicates = the number of absorbed items, one
\* audit entry per absorbed item, in input order, holding the first 80 characters
\* of its title and of the title of the record it went to, and original = final +
\* duplicates.
C19_Stats ==
    Returned1 =>
        /\ out.stats.original = Len(items)
        /\ out.stats.final = Len(out.items)
        /\ out.stats.duplicates = Cardinality(Absorbed)
        /\ Len(out.stats.merged) = Cardinality(Absorbed)
        /\ \A i \in Absorbed :
              LET n == Cardinality({j \in Absorbed : j <= i})
              IN  /\ IsCut(out.stats.merged[n].title, items[i].title)
                  /\ IsCut(out.stats.merged[n].merged_with, items[Founder(owner[i])].title)
        /\ out.stats.original = out.stats.final + out.stats.duplicates

\* C19 witness: a title of 81 characters absorbed into a record with one of 82; a
\* third item stays apart; both strings of the audit entry have 80 characters
C19_Witness ==
    /\ Returned1
    /\ Len(items) = 3
    /\ Len(items[1].title) = 82
    /\ Len(items[3].title) = 81
    /\ Absorbed = {3}
    /\ out.stats.final = 2
    /\ Len(out.stats.merged[1].title) = 80
    /\ Len(out.stats.merged[1].merged_with) = 80

----------------------------------------------------------------------------
(* Properties of the exact-key match (SpecDedup) *)

\* the positions of the mapping whose key is the identity key of the item
KeyHolders(item) == {k \in 1..Len(seen) : seen[k].key = get_dedup_key(item)}

\* the loop has just handled items[idx]
HandledOne == pc = "loop" /\ idx <= Len(items) /\ idx' = idx + 1

\* C20: an incoming item whose identity key is already a key of the mapping is
\* merged into the record stored under that key and counted as one duplicate,
\* whatever the titles of the earlier records: that record becomes the merge of
\* itself and the item, every other record and every key stays, no record is
\* added and duplicates grows by one.
C20_ExactKeyFirst ==
    [][ (HandledOne /\ KeyHolders(items[idx]) # {}) =>
          \E k \in KeyHolders(items[idx]) :
              /\ Len(seen') = Len(seen)
              /\ seen'[k].key = seen[k].key
              /\ seen'[k].item = merge_items(seen[k].item, items[idx])
              /\ \A j \in 1..Len(seen) : j # k => seen'[j] = seen[j]
              /\ owner'[idx] = k
              /\ stats'.duplicates = stats.duplicates + 1
              /\ Len(stats'.merged) = Len(stats.merged) + 1 ]_vars

\* C20 witness: at threshold 0.9 the third of three items, titled "ab" with DOI
\* x, was merged into the second record, which holds its key, though the first
\* record has the very same normalised title
C20_Witness ==
    /\ pass = 1
    /\ threshold = SearchThreshold
    /\ Len(owner) = 3
    /\ owner = <<1, 2, 2>>
    /\ get_dedup_key(items[3]) = seen[2].key
    /\ normalize_title(items[3].title) = normalize_title(items[1].title)
    /\ SimilarTitles(items[3], seen[1].item)
    /\ stats.duplicates = 1

----------------------------------------------------------------------------
(* Properties of the fuzzy phase (SpecFuzzy) *)

\* the surviving records whose title is similar enough to the item's
SimilarRecords(item) == {k \in 1..Len(seen) : SimilarTitles(item, seen[k].item)}

\* C21: an incoming item with no exact-key match is merged into the first
\* surviving record, in first-seen order, whose title similarity to it is at
\* least the threshold, whether or not a later record is more similar, and
\* becomes a new surviving record under its own key only if no surviving record
\* reaches the threshold.
C21_FirstMatchWins ==
    [][ (HandledOne /\ KeyHolders(items[idx]) = {}) =>
          LET S == SimilarRecords(items[idx])
          IN  IF S # {}
              THEN LET k == CHOOSE m \in S : \A n \in S : m <= n
                   IN  /\ Len(seen') = Len(seen)
                       /\ seen'[k].item = merge_items(seen[k].item, items[idx])
                       /\ \A j \in 1..Len(seen) : j # k => seen'[j] = seen[j]
                       /\ owner'[idx] = k
                       /\ stats'.duplicates = stats.duplicates + 1
              ELSE /\ seen' = Append(seen, [key  |-> get_dedup_key(items[idx]),
                                            item |-> items[idx]])
                   /\ owner'[idx] = Len(seen) + 1
                   /\ stats'.duplicates = stats.duplicates ]_vars

\* the similarity of the item's title to the k-th record's, as a fraction
SimilarityTo(item, k) ==
    SequenceMatcherRatio(normalize_title(item.title), normalize_title(seen[k].item.title))

\* C21 witness: at threshold 0.5 the records "a" and "bb" both survive, and the
\* third item "abb" went to "a" (similarity 0.5) though "bb" is more similar (0.8)
C21_Witness ==
    /\ threshold = <<1, 2>>
    /\ owner = <<1, 2, 1>>
    /\ Len(seen) = 2
    /\ SimilarRecords(items[3]) = {1, 2}
    /\ LET r1 == SimilarityTo(items[3], 1)
           r2 == SimilarityTo(items[3], 2)
       IN  r2[1] * r1[2] > r1[1] * r2[2]
    /\ stats.duplicates = 1

----------------------------------------------------------------------------
(* Properties of the slots a merge fills (SpecSlots) *)

\* the value of a string slot as a sequence, empty when the slot is empty
AsSeq(v) == IF v = "" THEN <<>> ELSE <<v>>

\* the ten slots of an item, in the order abstract, summary, date, doi, arxiv_id,
\* openalex_id, urls.pdf, urls.abstract, urls.publisher, local_path
SlotsOf(item) ==
    << AsSeq(item.abstract), AsSeq(item.summary), AsSeq(item.date),
       item.identifiers.doi, item.identifiers.arxiv_id,
       AsSeq(item.identifiers.openalex_id),
       AsSeq(item.urls.pdf), AsSeq(item.urls.abstract), AsSeq(item.urls.publisher),
       AsSeq(item.local_path) >>

\* the input positions handled so far that went into the k-th record
GroupSoFar(k) == {i \in 1..Len(owner) : owner[i] = k}

\* the first non-empty value of slot s among the items of the k-th record, in
\* input order; empty when none of them has one
FirstNonEmpty(k, s) ==
    LET having == {i \in GroupSoFar(k) : SlotsOf(items[i])[s] # <<>>}
    IN  IF having = {} THEN <<>>
        ELSE SlotsOf(items[CHOOSE i \in having : \A j \in having : i <= j])[s]

\* C22: for each of the ten slots a surviving record's value is the first
\* non-empty value of that slot, in input order, among the records merged into
\* it, so a non-empty value it already holds is never overwritten.
C22_FirstNonEmptyWins ==
    \A k \in 1..Len(seen) : \A s \in 1..10 :
        SlotsOf(seen[k].item)[s] = FirstNonEmpty(k, s)

\* C22 witness: three items in one record; the first has no slot filled, the
\* second the odd ones with p, the third the even ones with q, and the record
\* holds p and q alternately
C22_Witness ==
    /\ owner = <<1, 1, 1>>
    /\ SlotsOf(items[1]) = [s \in 1..10 |-> <<>>]
    /\ SlotsOf(seen[1].item) = [s \in 1..10 |-> IF s % 2 = 1 THEN <<"p">> ELSE <<"q">>]

----------------------------------------------------------------------------
(* Properties of the merged download_error (SpecSlots) *)

\* the loop has just merged items[idx] into the record owner'[idx]
MergedOne == HandledOne /\ Len(seen') = Len(seen)

\* C23 as stated: download_error is taken from B only if A's download_status is
\* failed and A has no error message yet; otherwise it is A's own value.
C23_ErrorFromFailedA ==
    [][ MergedOne =>
          LET A == seen[owner'[idx]].item
              B == items[idx]
          IN  seen'[owner'[idx]].item.download_error =
                  IF StatusOf(A) = "failed" /\ A.download_error = ""
                  THEN B.download_error
                  ELSE A.download_error ]_vars

\* C23 amended: download_error is taken from B only if the merged record's
\* download_status is failed and A has no error message yet; otherwise it is A's
\* own value.
C23_ErrorFromFailedMerge ==
    [][ MergedOne =>
          LET A == seen[owner'[idx]].item
              B == items[idx]
              m == seen'[owner'[idx]].item
          IN  m.download_error =
                  IF m.download_status = "failed" /\ A.download_error = ""
                  THEN B.download_error
                  ELSE A.download_error ]_vars

\* C23 witness: A is unavailable with no message, B failed with message e, and
\* the merged record is failed with message e
C23_Witness ==
    /\ owner = <<1, 1>>
    /\ items[1].download_status = "unavailable"
    /\ items[1].download_error = ""
    /\ items[2].download_status = "failed"
    /\ items[2].download_error = "e"
    /\ seen[1].item.download_status = "failed"
    /\ seen[1].item.download_error = "e"

----------------------------------------------------------------------------
(* Properties of the DOI key (SpecDoi) *)

\* the DOI without one leading https://doi.org/
StripOnePrefix(d) ==
    IF StartsWith(d, DoiPrefix) THEN SubSeq(d, Len(DoiPrefix) + 1, Len(d)) ELSE d

\* the two DOIs differ at most in letter case or in the presence of the prefix
SameUpToCaseOrPrefix(d1, d2) ==
    \/ LowerSeq(d1) = LowerSeq(d2)
    \/ d1 = DoiPrefix \o d2
    \/ d2 = DoiPrefix \o d1

\* C24: normalize_doi lower-cases the DOI and strips one leading https://doi.org/
\* and nothing else, and two items whose DOIs differ only in letter case or in
\* the presence of that prefix get the same identity key and dedup to one record
\* with duplicates = 1.
C24_DoiNormalization ==
    /\ \A i \in 1..Len(items) :
          normalize_doi(items[i].identifiers.doi) =
              LowerSeq(StripOnePrefix(items[i].identifiers.doi))
    /\ (Returned1 /\ Len(items) = 2
           /\ SameUpToCaseOrPrefix(items[1].identifiers.doi, items[2].identifiers.doi)) =>
          /\ get_dedup_key(items[1]) = get_dedup_key(items[2])
          /\ Len(out.items) = 1
          /\ out.stats.duplicates = 1

----------------------------------------------------------------------------
(* Properties of the records a merge brings together (SpecDoi) *)

\* C27: dedup never merges two items that carry different non-empty normalized
\* DOIs: an item merged into a record has an empty normalized DOI, or the record
\* has none, or the two are equal.
C27_NoCrossDoiMerge ==
    [][ MergedOne =>
          LET mine   == NormalizedDoi(seen[owner'[idx]].item)
              theirs == NormalizedDoi(items[idx])
          IN  mine = <<>> \/ theirs = <<>> \/ mine = theirs ]_vars

----------------------------------------------------------------------------
(* Properties of title_similarity (SpecSimilarity) *)

\* the fractions r and q are the same number
SameRatio(r, q) == r[1] * q[2] = q[1] * r[2]

\* C25: title_similarity is symmetric and its value lies in [0, 1]: for all the
\* titles a and b of the input, title_similarity(a, b) = title_similarity(b, a)
\* and 0 <= title_similarity(a, b) <= 1.
C25_Symmetric ==
    \A i, j \in 1..Len(items) :
        LET ab == title_similarity(items[i].title, items[j].title)
            ba == title_similarity(items[j].title, items[i].title)
        IN  /\ SameRatio(ab, ba)
            /\ ab[2] > 0
            /\ 0 <= ab[1]
            /\ ab[1] <= ab[2]

----------------------------------------------------------------------------
(* Properties of records without a title (SpecBlank) *)

\* the item has an empty title and neither a DOI nor an arXiv id
Untitled(item) ==
    /\ item.title = <<>>
    /\ item.identifiers.doi = <<>>
    /\ item.identifiers.arxiv_id = <<>>

\* the input positions of the untitled items
UntitledPositions == {i \in 1..Len(items) : Untitled(items[i])}

\* C26: all input records that have an empty title and no DOI or arXiv id end
\* in one and the same surviving record of the output, however many there are
\* and wherever they occur in the input.
C26_UntitledCollapse ==
    Returned1 =>
        /\ \A i, j \in UntitledPositions : owner[i] = owner[j]
        /\ Len(out.items) <= Len(items) - Cardinality(UntitledPositions)
                               + (IF UntitledPositions = {} THEN 0 ELSE 1)

\* C26 witness: untitled records at the first and last of three positions with
\* a titled record between them, two records in the output
C26_Witness ==
    /\ Returned1
    /\ UntitledPositions = {1, 3}
    /\ items[2].title # <<>>
    /\ owner[1] = owner[3]
    /\ Len(out.items) = 2

----------------------------------------------------------------------------
(* Properties of the provenance dedup keeps (SpecFields) *)

\* the non-empty source names an item carries
SourceNames(item) == NamesIn(SourceEntries(item)) \ {""}

\* C28: dedup loses no provenance: every non-empty source name carried by an
\* input item is in the source of the surviving record the item founded or was
\* absorbed into, and every input item is accounted for by exactly one
\* surviving record, the records and the duplicates adding up to the input.
C28_NoProvenanceLost ==
    Returned1 =>
        /\ Len(owner) = Len(items)
        /\ \A i \in 1..Len(items) :
              /\ owner[i] \in 1..Len(out.items)
              /\ SourceNames(items[i]) \subseteq SourceNames(out.items[owner[i]])
        /\ \A k \in 1..Len(out.items) : \E i \in 1..Len(items) : owner[i] = k
        /\ out.stats.final + out.stats.duplicates = Len(items)

\* C28 witness: three items with the sources arxiv, blog and openalex merged into
\* one record that names all three
C28_Witness ==
    /\ Returned1
    /\ owner = <<1, 1, 1>>
    /\ SourceNames(items[1]) = {"arxiv"}
    /\ SourceNames(items[2]) = {"blog"}
    /\ SourceNames(items[3]) = {"openalex"}
    /\ SourceNames(out.items[1]) = {"arxiv", "blog", "openalex"}

----------------------------------------------------------------------------
(* Properties of the stats download_pdfs returns (SpecDownload) *)

\* the positions that are not excluded and whose download_status after the call
\* is the given one
ActiveWith(download_status) ==
    {i \in 1..Len(loaded) :
        /\ loaded[i].status # "excluded"
        /\ result.items[i].download_status = download_status}

\* C29: the stats download_pdfs returns count every item exactly once: success +
\* failed + unavailable + excluded = total = number of items; success, failed and
\* unavailable are the numbers of non-excluded items left with that
\* download_status, excluded the number of excluded items, and skipped <= success.
C29_StatsPartition ==
    pc = "downloaded" =>
        LET s == result.l1_stats
        IN  /\ s.total = Len(loaded)
            /\ s.success + s.failed + s.unavailable + s.excluded = s.total
            /\ s.success = Cardinality(ActiveWith("success"))
            /\ s.failed = Cardinality(ActiveWith("failed"))
            /\ s.unavailable = Cardinality(ActiveWith("unavailable"))
            /\ s.excluded = Cardinality({i \in 1..Len(loaded) : loaded[i].status = "excluded"})
            /\ s.skipped <= s.success

\* C29 witness: three items, one downloaded earlier and skipped, one excluded
\* with a stale failed status, one whose download fails
C29_Witness ==
    /\ pc = "downloaded"
    /\ Len(loaded) = 3
    /\ result.l1_stats.skipped = 1
    /\ result.l1_stats.success = 1
    /\ result.l1_stats.excluded = 1
    /\ result.l1_stats.failed = 1
    /\ \E i \in 1..3 : loaded[i].status = "excluded" /\ loaded[i].download_status = "failed"

----------------------------------------------------------------------------
(* Properties of download_with_retry (SpecRetry) *)

\* the call has returned an error message
ReturnedError == retry.returned \notin {"running", "None"}

\* the attempts made so far that did not yield a PDF
FailedAttempts == {i \in 1..Len(retry.tried) : retry.tried[i].outcome # "ok"}

\* at most max_retries attempts; None exactly at the first attempt that yields a
\* PDF; an error message, never empty, after exactly max_retries failed attempts
AttemptsAndReturn ==
    /\ Len(retry.tried) <= retry.max_retries
    /\ retry.returned = "None" =>
          /\ Len(retry.tried) >= 1
          /\ retry.tried[Len(retry.tried)].outcome = "ok"
          /\ FailedAttempts = 1..(Len(retry.tried) - 1)
          /\ retry.file = "pdf"
    /\ ReturnedError =>
          /\ retry.returned # ""
          /\ Len(retry.tried) = retry.max_retries
          /\ FailedAttempts = 1..retry.max_retries
    /\ retry.returned = "running" => FailedAttempts = 1..Len(retry.tried)

\* no attempt is made once the call has returned
NoAttemptAfterReturn == [][retry.returned # "running" => retry' = retry]_vars

LastCleanupDone ==
    /\ Len(retry.tried) >= 1
    /\ retry.tried[Len(retry.tried)].cleanup # "failed"

====
